---- MODULE Spec2Model ----
(***************************************************************************)
(* The socket layer of the cellular driver (src/sock/src/cellular_sock.c): *)
(* the container pool (a doubly linked list of static and heap containers),*)
(* the per-socket state machine, the public API calls and the URC          *)
(* handlers, over an abstract AT transport and modem.                      *)
(***************************************************************************)
EXTENDS Integers, Sequences, FiniteSets, TLC

(***************************************************************************)
(* Bounds of the model.                                                    *)
(***************************************************************************)
\* CELLULAR_SOCK_NUM_STATIC_SOCKETS: the size of gStaticContainers[].
NumStatic == 1
\* The number of containers the heap can hold at one time.
HeapCells == 2
\* CELLULAR_SOCK_MAX: the most non-closed sockets create allows.
SockMax == 2
\* The largest positive descriptor value (INT32_MAX in the code): the
\* increment of this value wraps to 0.
MaxDescriptor == 2
\* The number of socket handles the modem has (0..NumHandles-1).
NumHandles == 2

NULL == 0
NumCells == NumStatic + HeapCells
Cells == 1..NumCells
StaticCells == 1..NumStatic
DynamicCells == (NumStatic + 1)..NumCells
Descriptors == 0..MaxDescriptor
Handles == 0..(NumHandles - 1)

\* CellularSockState_t
CREATED == "CREATED"
CONNECTED == "CONNECTED"
SHUTDOWN_FOR_READ == "SHUTDOWN_FOR_READ"
SHUTDOWN_FOR_WRITE == "SHUTDOWN_FOR_WRITE"
SHUTDOWN_FOR_READ_WRITE == "SHUTDOWN_FOR_READ_WRITE"
CLOSING == "CLOSING"
CLOSED == "CLOSED"
SockStates ==
    {CREATED, CONNECTED, SHUTDOWN_FOR_READ, SHUTDOWN_FOR_WRITE,
     SHUTDOWN_FOR_READ_WRITE, CLOSING, CLOSED}

\* The protocol and type arguments of create; "UNSUPPORTED" is any unsupported value.
TCP == "TCP"
UDP == "UDP"
STREAM == "STREAM"
DGRAM == "DGRAM"
UNSUPPORTED == "UNSUPPORTED"

\* Addresses: two well-formed ones, one whose type is neither V4 nor V6, the
\* all-zero structure memset leaves, and a NULL pointer argument.
NoAddress == "NULL"
ZeroAddress == "ZERO"
BadAddress == "BADTYPE"
GoodAddresses == {"A1", "A2"}

\* CELLULAR_SOCK_RECEIVE_TIMEOUT_DEFAULT_MS, in polling intervals.
CELLULAR_SOCK_RECEIVE_TIMEOUT_DEFAULT_MS == 2

\* Error numbers (cellular_sock_errno.h), by name.
ENONE == "ENONE"
EBADF == "EBADF"
ENOBUFS == "ENOBUFS"
EIO == "EIO"
EPERM == "EPERM"
EINVAL == "EINVAL"
ENOMEM == "ENOMEM"
EPROTONOSUPPORT == "EPROTONOSUPPORT"
EPFNOSUPPORT == "EPFNOSUPPORT"
EPROTOTYPE == "EPROTOTYPE"
EDESTADDRREQ == "EDESTADDRREQ"
EHOSTUNREACH == "EHOSTUNREACH"
ESHUTDOWN == "ESHUTDOWN"
ENOTCONN == "ENOTCONN"
EMSGSIZE == "EMSGSIZE"
EWOULDBLOCK == "EWOULDBLOCK"

\* Return values.
CELLULAR_SOCK_SUCCESS == 0
CELLULAR_SOCK_BSD_ERROR == -1

VARIABLES
    heap,                 \* the memory of every container: gStaticContainers[] and the heap
    allocated,            \* the dynamic cells malloc has handed out and free has not taken back
    gpContainerListHead,  \* root of the container list
    gNextDescriptor,      \* the next descriptor to use
    gInitialised,         \* URC handlers registered, static containers linked
    modemOpen,            \* the handles the modem has open
    crashed,              \* the program has dereferenced NULL or freed what it may not
    call,                 \* the receive call in progress, holding the container mutex
    retired,              \* the descriptors close has closed and create has not returned since
    recording,            \* the descriptors of which retired keeps a record
    module,               \* the module the code is built for
    lowOnMemory,          \* the OS may have no memory left for a mutex
    gMutexContainer,      \* the mutex of the container list, NULL until created
    gMutexCallbacks,      \* the mutex of the callbacks, NULL until created
    pc,                   \* of each task, the steps it has still to take in its call
    owner,                \* of each lock, the task that holds it
    last                  \* what the call or URC handler that has just ended has left

vars == <<heap, allocated, gpContainerListHead, gNextDescriptor, gInitialised,
          modemOpen, crashed, call, retired, recording, module, lowOnMemory, pc, owner,
          gMutexContainer, gMutexCallbacks, last>>

\* The tasks of the application that call the API; task 0 is that of the AT
\* parser, which runs the URC handlers.
NumThreads == 2

\* The handle of a mutex that has been created.
MUTEX == 1

\* The build defines one module type: CELLULAR_CFG_MODULE_SARA_R4 or
\* CELLULAR_CFG_MODULE_SARA_R5.
Modules == {"SARA_R4", "SARA_R5"}
CELLULAR_CFG_MODULE_SARA_R4 == module = "SARA_R4"

(***************************************************************************)
(* Memory.                                                                 *)
(***************************************************************************)
\* A container as static storage starts: all bytes zero.  State 0 is
\* CREATED, a zero address structure is ZeroAddress.
ZeroContainer ==
    [pPrevious |-> NULL, pNext |-> NULL, descriptor |-> 0, isStatic |-> FALSE,
     type |-> UNSUPPORTED, protocol |-> UNSUPPORTED, modemHandle |-> 0, state |-> CREATED,
     remoteAddress |-> ZeroAddress, receiveTimeoutMs |-> 0, nonBlocking |-> FALSE,
     pendingBytes |-> 0, pPendingDataCallback |-> NULL,
     pConnectionClosedCallback |-> NULL]

\* The cells a program may touch: static storage and live heap blocks.
Live(alloc) == StaticCells \cup alloc

RECURSIVE Walk(_, _, _)
Walk(h, c, fuel) ==
    IF c = NULL \/ fuel = 0 THEN <<>>
    ELSE <<c>> \o Walk(h, h[c].pNext, fuel - 1)

\* The containers met by following pNext from the head.
Chain(h, head) == Walk(h, head, NumCells + 1)

Min(S) == CHOOSE x \in S : \A y \in S : x <= y

\* The first container of the walk that satisfies P, or NULL.
FirstInChain(h, head, P(_)) ==
    LET ch == Chain(h, head)
        hits == {i \in 1..Len(ch) : P(ch[i])}
    IN IF hits = {} THEN NULL ELSE ch[Min(hits)]

\* The memory a function works on: the cells, the list head, the live heap blocks.
Mem(h, head, alloc) == [heap |-> h, head |-> head, alloc |-> alloc]

\* Find the socket container for the given descriptor; not one in state CLOSED.
pContainerFindByDescriptor(m, descriptor) ==
    LET Hit(c) == /\ m.heap[c].descriptor = descriptor
                  /\ m.heap[c].state # CLOSED
    IN FirstInChain(m.heap, m.head, Hit)

\* A faulty lookup by modem handle, which finds nothing.
FindsNoModemHandle(m, modemHandle) == NULL

\* A faulty lookup by modem handle, which also finds containers in state
\* CLOSED.
FindsClosedToo(m, modemHandle) ==
    LET Hit(c) == m.heap[c].modemHandle = modemHandle
    IN FirstInChain(m.heap, m.head, Hit)

\* Find the socket container for the given modem handle; not one in state CLOSED.
pContainerFindByModemHandle(m, modemHandle) ==
    LET Hit(c) == /\ m.heap[c].modemHandle = modemHandle
                  /\ m.heap[c].state # CLOSED
    IN FirstInChain(m.heap, m.head, Hit)

\* A faulty count of the sockets in use, which sees none.
CountsNoContainer(m) == 0

\* The number of non-closed sockets in the list.
numContainersInUse(m) ==
    LET ch == Chain(m.heap, m.head)
    IN Cardinality({i \in 1..Len(ch) : m.heap[ch[i]].state # CLOSED})

\* A faulty increment, which does not go back to 0.
StopsAtTheLargest(d) == IF d + 1 > MaxDescriptor THEN d ELSE d + 1

\* CELLULAR_SOCK_INC_DESCRIPTOR: d++, and a value that has gone negative
\* (the increment of the largest positive value) becomes 0.
CELLULAR_SOCK_INC_DESCRIPTOR(d) == IF d + 1 > MaxDescriptor THEN 0 ELSE d + 1

\* init(): when not initialised, register the URC handlers and link the
\* static containers, each marked CLOSED, into the start of the list.
init(m, initialised) ==
    IF initialised \/ NumStatic = 0 THEN m
    ELSE Mem([c \in Cells |->
                IF c \in StaticCells
                THEN [m.heap[c] EXCEPT !.isStatic = TRUE, !.state = CLOSED,
                         !.pNext = IF c = NumStatic THEN NULL ELSE c + 1,
                         !.pPrevious = IF c = 1 THEN NULL ELSE c - 1]
                ELSE m.heap[c]],
             1, m.alloc)

\* pCellularPort_malloc(): the block it returns, or NULL when there is none.
malloc(m, mallocOk) ==
    LET free == DynamicCells \ m.alloc
    IN IF mallocOk /\ free # {} THEN Min(free) ELSE NULL

\* A faulty set-up, which leaves in the socket of a container it re-uses what
\* the socket before had in it.
KeepsTheSocket(m, descriptor, type, protocol, mallocOk, garbage) ==
    LET ch == Chain(m.heap, m.head)
        IsClosed(c) == m.heap[c].state = CLOSED
        reuse == FirstInChain(m.heap, m.head, IsClosed)
        block == IF reuse # NULL THEN NULL ELSE malloc(m, mallocOk)
        pContainer == IF reuse # NULL THEN reuse ELSE block
        pContainerPrevious == IF ch = <<>> THEN NULL ELSE ch[Len(ch)]
        linked ==
            IF block = NULL THEN m
            ELSE LET h1 == [m.heap EXCEPT ![block] =
                               [ZeroContainer EXCEPT !.isStatic = garbage,
                                   !.pPrevious = pContainerPrevious, !.pNext = NULL]]
                 IN IF pContainerPrevious = NULL
                    THEN Mem(h1, block, m.alloc \cup {block})
                    ELSE Mem([h1 EXCEPT ![pContainerPrevious].pNext = block],
                             m.head, m.alloc \cup {block})
        setUp ==
            IF pContainer = NULL THEN linked
            ELSE [linked EXCEPT !.heap[pContainer] =
                    [@ EXCEPT !.descriptor = descriptor,
                        !.type = type, !.protocol = protocol, !.modemHandle = -1,
                        !.state = CREATED,
                        !.receiveTimeoutMs = CELLULAR_SOCK_RECEIVE_TIMEOUT_DEFAULT_MS]]
    IN [m |-> setUp, pContainer |-> pContainer]

\* pSockContainerCreate(): re-use the first CLOSED container of the list or
\* append a new heap block, then set up the socket.  isStatic of a new block
\* is never written: it keeps what the block held (garbage).
pSockContainerCreate(m, descriptor, type, protocol, mallocOk, garbage) ==
    LET ch == Chain(m.heap, m.head)
        IsClosed(c) == m.heap[c].state = CLOSED
        reuse == FirstInChain(m.heap, m.head, IsClosed)
        block == IF reuse # NULL THEN NULL ELSE malloc(m, mallocOk)
        pContainer == IF reuse # NULL THEN reuse ELSE block
        pContainerPrevious == IF ch = <<>> THEN NULL ELSE ch[Len(ch)]
        linked ==
            IF block = NULL THEN m
            ELSE LET h1 == [m.heap EXCEPT ![block] =
                               [ZeroContainer EXCEPT !.isStatic = garbage,
                                   !.pPrevious = pContainerPrevious, !.pNext = NULL]]
                 IN IF pContainerPrevious = NULL
                    THEN Mem(h1, block, m.alloc \cup {block})
                    ELSE Mem([h1 EXCEPT ![pContainerPrevious].pNext = block],
                             m.head, m.alloc \cup {block})
        setUp ==
            IF pContainer = NULL THEN linked
            ELSE [linked EXCEPT !.heap[pContainer] =
                    [@ EXCEPT !.descriptor = descriptor,
                        !.type = type, !.protocol = protocol, !.modemHandle = -1,
                        !.state = CREATED, !.remoteAddress = ZeroAddress,
                        !.receiveTimeoutMs = CELLULAR_SOCK_RECEIVE_TIMEOUT_DEFAULT_MS,
                        !.nonBlocking = FALSE, !.pendingBytes = 0,
                        !.pPendingDataCallback = NULL,
                        !.pConnectionClosedCallback = NULL]]
    IN [m |-> setUp, pContainer |-> pContainer]

\* A pointer to a container pointer: 0 is &gpContainerListHead, c is
\* &(container c)->pNext.
Deref(m, pp) == IF pp = 0 THEN m.head ELSE m.heap[pp].pNext
Assign(m, pp, v) ==
    IF pp = 0 THEN [m EXCEPT !.head = v] ELSE [m EXCEPT !.heap[pp].pNext = v]

\* containerFree(): find the first container of the list with the descriptor
\* (whatever its state) and, when it is not static, uncouple and free it
\* through *ppContainer, a pointer to the pointer that led to it.  Moving the
\* previous container's pNext changes *ppContainer itself, so what follows
\* works on the next container; (*ppContainer)->pNext with *ppContainer NULL
\* is a NULL dereference (ub), which either stops the program or reads NULL.
containerFree(m, descriptor, ubReadsNull) ==
    LET ch == Chain(m.heap, m.head)
        hits == {i \in 1..Len(ch) : m.heap[ch[i]].descriptor = descriptor}
        i == Min(hits)
        ppContainer == IF i = 1 THEN 0 ELSE ch[i - 1]
        c0 == Deref(m, ppContainer)
        m1 == IF m.heap[c0].pPrevious # NULL
              THEN [m EXCEPT !.heap[m.heap[c0].pPrevious].pNext = m.heap[c0].pNext]
              ELSE m
        x == Deref(m1, ppContainer)
        m2 == IF m1.heap[x].pNext # NULL
              THEN [m1 EXCEPT !.heap[m1.heap[x].pNext].pPrevious = m1.heap[x].pPrevious]
              ELSE m1
        m3 == Assign([m2 EXCEPT !.alloc = @ \ {x}], ppContainer, NULL)
    IN IF hits = {} THEN [m |-> m, crash |-> FALSE, success |-> FALSE]
       ELSE IF m.heap[c0].isStatic THEN [m |-> m, crash |-> FALSE, success |-> TRUE]
       ELSE IF x = NULL THEN [m |-> m1, crash |-> ~ubReadsNull, success |-> TRUE]
       ELSE IF x \notin m2.alloc THEN [m |-> m2, crash |-> TRUE, success |-> TRUE]
       ELSE [m |-> m3, crash |-> FALSE, success |-> TRUE]

\* Memory no pointer of the program leads to any more holds nothing the
\* program can read: such cells are kept as zeroes.  A leaked block stays
\* allocated.
Forget(m) ==
    LET ch == Chain(m.heap, m.head)
        linked == {ch[i] : i \in 1..Len(ch)}
    IN [m EXCEPT !.heap = [c \in Cells |->
            IF c \in linked \/ c \in StaticCells THEN m.heap[c] ELSE ZeroContainer]]

\* One command written to the modem.
Cmd(name, handle, args) == [cmd |-> name, handle |-> handle, args |-> args]

\* A command written to the modem together with what the modem answered to
\* it, for the commands whose answer decides what the caller returns.
Exchange(name, handle, args, answer) ==
    [cmd |-> name, handle |-> handle, args |-> args, answer |-> answer]

Now == Mem(heap, gpContainerListHead, allocated)

\* What a call leaves for its caller: the operation and its arguments, the
\* container it has found, the memory and the retired descriptors as they
\* were before the call, the value returned, the errno set (ENONE when it has set none), the commands written
\* to the modem and the callbacks handed to cellular_ctrl_at_callback(), and
\* gNextDescriptor as it was before the call.
Result(op, d, args, p, ret, errno, cmds) ==
    [op |-> op, d |-> d, args |-> args, p |-> p, before |-> Now,
     retired |-> retired, ret |-> ret, errno |-> errno, cmds |-> cmds,
     scheduled |-> <<>>, cursor |-> gNextDescriptor]

\* What a URC handler leaves.
Handled(urc, handle, args, p, scheduled) ==
    [op |-> urc, d |-> handle, args |-> args, p |-> p, before |-> Now,
     retired |-> retired, ret |-> 0, errno |-> ENONE, cmds |-> <<>>,
     scheduled |-> scheduled, cursor |-> gNextDescriptor]

\* Nothing to take note of.
Idle == [op |-> "none"]

\* The modem's answers to AT+USOCR: a handle it does not have open, or an
\* error, with which the handle reads as -1.
USOCR_responses ==
    {[error |-> FALSE, handle |-> h] : h \in Handles \ modemOpen}
        \cup {[error |-> TRUE, handle |-> -1]}

\* The modem's answers to a command on a handle: OK only for a handle it has open.
Answers(handle) == IF handle \in modemOpen THEN {TRUE, FALSE} ELSE {FALSE}

\* A faulty choice of descriptor, which takes the cursor as it is.
TakesTheCursor(m, descriptor, fuel) == descriptor

\* The descriptor create settles on: the first value from the cursor on
\* that pContainerFindByDescriptor() does not find.
RECURSIVE NextFreeDescriptor(_, _, _)
NextFreeDescriptor(m, descriptor, fuel) ==
    IF fuel = 0 THEN -1
    ELSE IF pContainerFindByDescriptor(m, descriptor) = NULL THEN descriptor
    ELSE NextFreeDescriptor(m, CELLULAR_SOCK_INC_DESCRIPTOR(descriptor), fuel - 1)

\* The memory a step leaves.
Store(m) ==
    /\ heap' = Forget(m).heap
    /\ gpContainerListHead' = m.head
    /\ allocated' = m.alloc

\* No receive call is in progress.
NoCall == [op |-> "none"]

\* The memory and the result a call ends with.
Commit(m, res) ==
    /\ Store(m)
    /\ last' = res
    /\ call' = NoCall

\* A call that fails before it has written to the modem.
Failed(m, op, d, args, p, errno) ==
    /\ Commit(m, Result(op, d, args, p, CELLULAR_SOCK_BSD_ERROR, errno, <<>>))
    /\ UNCHANGED <<recording, module, lowOnMemory, pc, owner, retired, gNextDescriptor, modemOpen, crashed>>

\* cellularPortMutexCreate(): the handle of a new mutex, or NULL when the OS
\* has no memory for one.
cellularPortMutexCreate(created) == IF created THEN MUTEX ELSE NULL

\* The first lines of init(): each mutex that is still NULL is created; the
\* outcome is not looked at.
CreateMutexes ==
    \E c1, c2 \in (IF lowOnMemory THEN BOOLEAN ELSE {TRUE}) :
        /\ gMutexContainer' = IF gMutexContainer = NULL
                               THEN cellularPortMutexCreate(c1) ELSE gMutexContainer
        /\ gMutexCallbacks' = IF gMutexCallbacks = NULL
                               THEN cellularPortMutexCreate(c2) ELSE gMutexCallbacks

\* A call starts when the program runs, no other call holds the container
\* mutex and the result of the call before has been taken.
Ready == ~crashed /\ last = Idle /\ call = NoCall

\* A URC handler runs in the task of the AT parser, whether or not a call is
\* in progress.
UrcReady == ~crashed /\ last = Idle

\* cellularSockCreate() from CELLULAR_PORT_MUTEX_LOCK(gMutexContainer) on, on
\* the memory it finds when it has the mutex.
create(m0, type, protocol) ==
    LET args == [type |-> type, protocol |-> protocol]
        descriptor == NextFreeDescriptor(m0, gNextDescriptor, MaxDescriptor + 1)
        mallocs == FirstInChain(m0.heap, m0.head, LAMBDA c : m0.heap[c].state = CLOSED) = NULL
        cmds == <<Cmd("AT+USOCR=", -1, protocol)>>
    IN IF type \notin {STREAM, DGRAM}
       THEN Failed(m0, "create", -1, args, NULL, EPFNOSUPPORT)
       ELSE IF protocol \notin {TCP, UDP}
       THEN Failed(m0, "create", -1, args, NULL, EPROTONOSUPPORT)
       ELSE IF ~(numContainersInUse(m0) < SockMax)
       THEN Failed(m0, "create", -1, args, NULL, ENOBUFS)
       ELSE
         /\ descriptor >= 0
         /\ gNextDescriptor' = CELLULAR_SOCK_INC_DESCRIPTOR(descriptor)
         /\ UNCHANGED <<recording, module, lowOnMemory, pc, owner>>
         /\ \E mallocOk \in IF mallocs THEN BOOLEAN ELSE {TRUE},
               garbage \in IF mallocs THEN BOOLEAN ELSE {FALSE} :
             LET made == pSockContainerCreate(m0, descriptor, type, protocol,
                                              mallocOk, garbage)
                 pContainer == made.pContainer
             IN IF pContainer = NULL
                THEN /\ Commit(made.m, Result("create", -1, args, NULL,
                                              CELLULAR_SOCK_BSD_ERROR, ENOBUFS, <<>>))
                     /\ UNCHANGED <<modemOpen, crashed, retired>>
                ELSE \E resp \in USOCR_responses :
                     LET m1 == [made.m EXCEPT !.heap[pContainer].modemHandle = resp.handle]
                     IN IF ~resp.error
                        THEN /\ Commit(m1, Result("create", descriptor, args, pContainer,
                                                  descriptor, ENONE, cmds))
                             /\ modemOpen' = modemOpen \cup {resp.handle}
                             /\ retired' = retired \ {descriptor}
                             /\ UNCHANGED crashed
                        ELSE \E ubReadsNull \in BOOLEAN :
                             LET freed == containerFree(m1, descriptor, ubReadsNull)
                             IN /\ Commit(freed.m, Result("create", descriptor, args, pContainer,
                                              CELLULAR_SOCK_BSD_ERROR, EIO, cmds))
                                /\ crashed' = freed.crash
                                /\ UNCHANGED <<modemOpen, retired>>

\* cellularSockCreate(): init(), then the rest with the container mutex held,
\* no other call coming between the two.
cellularSockCreate(type, protocol) ==
    /\ Ready
    /\ gInitialised' = TRUE
    /\ CreateMutexes
    /\ create(init(Now, gInitialised), type, protocol)

\* addressToString() > 0: the address type is V4 or V6.
addressToString(pAddress) == pAddress \in GoodAddresses

\* A faulty check of the state, which lets every socket connect.
ConnectsInAnyState(socket) == TRUE

\* The state in which cellularSockConnect() talks to the modem.
mayConnect(socket) == socket.state = CREATED

\* cellularSockConnect()
cellularSockConnect(descriptor, pRemoteAddress) ==
    LET m0 == init(Now, gInitialised)
        args == [address |-> pRemoteAddress]
        pContainer == pContainerFindByDescriptor(m0, descriptor)
        socket == m0.heap[pContainer]
        cmds == <<Cmd("AT+USOCO=", socket.modemHandle, pRemoteAddress)>>
        m1 == [m0 EXCEPT !.heap[pContainer].remoteAddress = pRemoteAddress,
                         !.heap[pContainer].state = CONNECTED]
    IN /\ Ready
       /\ gInitialised' = TRUE
       /\ CreateMutexes
       /\ IF pRemoteAddress = NoAddress \/ ~addressToString(pRemoteAddress)
          THEN Failed(m0, "connect", descriptor, args, NULL, EDESTADDRREQ)
          ELSE IF pContainer = NULL
          THEN Failed(m0, "connect", descriptor, args, NULL, EBADF)
          ELSE IF ~mayConnect(socket)
          THEN Failed(m0, "connect", descriptor, args, pContainer, EPERM)
          ELSE /\ \E ok \in Answers(socket.modemHandle) :
                    IF ok
                    THEN Commit(m1, Result("connect", descriptor, args, pContainer,
                                           CELLULAR_SOCK_SUCCESS, ENONE, cmds))
                    ELSE Commit(m0, Result("connect", descriptor, args, pContainer,
                                           CELLULAR_SOCK_BSD_ERROR, EHOSTUNREACH, cmds))
               /\ UNCHANGED <<recording, module, lowOnMemory, pc, owner, retired, gNextDescriptor, modemOpen, crashed>>

\* A faulty choice of the state to close into, which never waits for the modem.
ClosedAtOnce(socket) == CLOSED

\* Whether cellularSockClose() asks the modem for an asynchronous indication,
\* and the state it leaves the socket in when the modem answers OK.
asynchronousClose(socket) ==
    /\ CELLULAR_CFG_MODULE_SARA_R4
    /\ socket.protocol = TCP
    /\ socket.state = CONNECTED
finalState(socket) == IF asynchronousClose(socket) THEN CLOSING ELSE CLOSED

\* A faulty close, which leaves the socket closed when the modem rejects the
\* command.
ClosesAnyway(descriptor) ==
    LET m0 == init(Now, gInitialised)
        pContainer == pContainerFindByDescriptor(m0, descriptor)
        socket == m0.heap[pContainer]
        cmds == <<Cmd("AT+USOCL=", socket.modemHandle, "")>>
        m1 == [m0 EXCEPT !.heap[pContainer].state = CLOSED]
    IN /\ Ready
       /\ gInitialised' = TRUE
       /\ CreateMutexes
       /\ IF pContainer = NULL
          THEN Failed(m0, "close", descriptor, <<>>, NULL, EBADF)
          ELSE /\ \E ok \in Answers(socket.modemHandle) :
                    /\ Commit(m1, Result("close", descriptor, <<>>, pContainer,
                                         IF ok THEN CELLULAR_SOCK_SUCCESS
                                         ELSE CELLULAR_SOCK_BSD_ERROR,
                                         IF ok THEN ENONE ELSE EIO, cmds))
                    /\ modemOpen' = IF ok THEN modemOpen \ {socket.modemHandle}
                                    ELSE modemOpen
                    /\ UNCHANGED retired
               /\ UNCHANGED <<gNextDescriptor, crashed, recording, module, lowOnMemory, pc, owner>>

\* cellularSockClose()
cellularSockClose(descriptor) ==
    LET m0 == init(Now, gInitialised)
        pContainer == pContainerFindByDescriptor(m0, descriptor)
        socket == m0.heap[pContainer]
        asynchronous == asynchronousClose(socket)
        cmds == <<Cmd("AT+USOCL=", socket.modemHandle,
                      IF asynchronous THEN "1" ELSE "")>>
        m1 == [m0 EXCEPT !.heap[pContainer].state = finalState(socket)]
    IN /\ Ready
       /\ gInitialised' = TRUE
       /\ CreateMutexes
       /\ IF pContainer = NULL
          THEN Failed(m0, "close", descriptor, <<>>, NULL, EBADF)
          ELSE /\ \E ok \in Answers(socket.modemHandle) :
                    IF ok
                    THEN /\ Commit(m1, Result("close", descriptor, <<>>, pContainer,
                                              CELLULAR_SOCK_SUCCESS, ENONE, cmds))
                         /\ modemOpen' = IF asynchronous THEN modemOpen
                                         ELSE modemOpen \ {socket.modemHandle}
                         /\ retired' = IF asynchronous \/ descriptor \notin recording THEN retired
                                       ELSE retired \cup {descriptor}
                    ELSE /\ Commit(m0, Result("close", descriptor, <<>>, pContainer,
                                              CELLULAR_SOCK_BSD_ERROR, EIO, cmds))
                         /\ UNCHANGED <<modemOpen, retired>>
               /\ UNCHANGED <<gNextDescriptor, crashed, recording, module, lowOnMemory, pc, owner>>

\* A faulty sweep, which frees a container and leaves it in the list.
RECURSIVE FreesLinked(_, _, _, _, _, _)
FreesLinked(m, pContainer, all, numNonClosedSockets, badFree, fuel) ==
    IF pContainer = NULL \/ fuel = 0
    THEN [m |-> m, numNonClosedSockets |-> numNonClosedSockets, crash |-> badFree]
    ELSE LET c == m.heap[pContainer]
             m3 == [m EXCEPT !.alloc = @ \ {pContainer}]
         IN IF all \/ c.state \in {CLOSED, CLOSING}
            THEN IF ~c.isStatic
                 THEN FreesLinked(m3, c.pNext, all, numNonClosedSockets,
                                  badFree \/ pContainer \notin m.alloc, fuel - 1)
                 ELSE FreesLinked([m EXCEPT !.heap[pContainer].state = CLOSED],
                                  c.pNext, all, numNonClosedSockets, badFree, fuel - 1)
            ELSE FreesLinked(m, c.pNext, all, numNonClosedSockets + 1, badFree, fuel - 1)

\* A faulty sweep, which takes every container it removes for one from the
\* heap.
RECURSIVE SweepsStaticToo(_, _, _, _, _, _)
SweepsStaticToo(m, pContainer, all, numNonClosedSockets, badFree, fuel) ==
    IF pContainer = NULL \/ fuel = 0
    THEN [m |-> m, numNonClosedSockets |-> numNonClosedSockets, crash |-> badFree]
    ELSE LET c == m.heap[pContainer]
             m1 == IF c.pPrevious # NULL
                   THEN [m EXCEPT !.heap[c.pPrevious].pNext = c.pNext]
                   ELSE [m EXCEPT !.head = c.pNext]
             m2 == IF c.pNext # NULL
                   THEN [m1 EXCEPT !.heap[c.pNext].pPrevious = c.pPrevious]
                   ELSE m1
             m3 == [m2 EXCEPT !.alloc = @ \ {pContainer}]
         IN IF all \/ c.state \in {CLOSED, CLOSING}
            THEN SweepsStaticToo(m3, c.pNext, all, numNonClosedSockets,
                                 badFree \/ pContainer \notin m.alloc, fuel - 1)
            ELSE SweepsStaticToo(m, c.pNext, all, numNonClosedSockets + 1,
                                 badFree, fuel - 1)

\* The loop shared by cellularSockCleanUp() (all == FALSE: only CLOSED and
\* CLOSING containers) and cellularSockDeinit() (all == TRUE: every
\* container): free the ones not static, mark the static ones CLOSED.
\* Returns the memory, the count of sockets passed over and whether free()
\* was given a block that is not a live heap block.
RECURSIVE SweepLoop(_, _, _, _, _, _)
SweepLoop(m, pContainer, all, numNonClosedSockets, badFree, fuel) ==
    IF pContainer = NULL \/ fuel = 0
    THEN [m |-> m, numNonClosedSockets |-> numNonClosedSockets, crash |-> badFree]
    ELSE LET c == m.heap[pContainer]
             m1 == IF c.pPrevious # NULL
                   THEN [m EXCEPT !.heap[c.pPrevious].pNext = c.pNext]
                   ELSE [m EXCEPT !.head = c.pNext]
             m2 == IF c.pNext # NULL
                   THEN [m1 EXCEPT !.heap[c.pNext].pPrevious = c.pPrevious]
                   ELSE m1
             m3 == [m2 EXCEPT !.alloc = @ \ {pContainer}]
         IN IF all \/ c.state \in {CLOSED, CLOSING}
            THEN IF ~c.isStatic
                 THEN SweepLoop(m3, c.pNext, all, numNonClosedSockets,
                                badFree \/ pContainer \notin m.alloc, fuel - 1)
                 ELSE SweepLoop([m EXCEPT !.heap[pContainer].state = CLOSED],
                                c.pNext, all, numNonClosedSockets, badFree, fuel - 1)
            ELSE SweepLoop(m, c.pNext, all, numNonClosedSockets + 1, badFree, fuel - 1)

\* A faulty cellularSockCleanUp(), which sweeps the list and leaves the
\* subsystem initialised whatever is left.
SweepsOnly ==
    LET swept == SweepLoop(Now, gpContainerListHead, FALSE, 0, FALSE, NumCells + 1)
        res == Result("cleanUp", -1, [swept |-> gInitialised], NULL, 0, ENONE, <<>>)
    IN /\ Ready
       /\ IF ~gInitialised
          THEN /\ last' = res
               /\ UNCHANGED <<heap, allocated, gpContainerListHead, gInitialised, gMutexContainer, gMutexCallbacks, crashed, call>>
          ELSE /\ Commit(swept.m, res)
               /\ gInitialised' = TRUE
               /\ UNCHANGED <<gMutexContainer, gMutexCallbacks>>
               /\ crashed' = swept.crash
       /\ UNCHANGED <<recording, module, lowOnMemory, pc, owner, retired, gNextDescriptor, modemOpen>>

\* cellularSockCleanUp()
cellularSockCleanUp ==
    LET swept == SweepLoop(Now, gpContainerListHead, FALSE, 0, FALSE, NumCells + 1)
        res == Result("cleanUp", -1, [swept |-> gInitialised], NULL, 0, ENONE, <<>>)
    IN /\ Ready
       /\ IF ~gInitialised
          THEN /\ last' = res
               /\ UNCHANGED <<heap, allocated, gpContainerListHead, gInitialised, gMutexContainer, gMutexCallbacks, crashed, call>>
          ELSE /\ Commit(swept.m, res)
               /\ gInitialised' = (swept.numNonClosedSockets # 0)
               /\ UNCHANGED <<gMutexContainer, gMutexCallbacks>>
               /\ crashed' = swept.crash
       /\ UNCHANGED <<recording, module, lowOnMemory, pc, owner, retired, gNextDescriptor, modemOpen>>

\* cellularSockDeinit()
cellularSockDeinit ==
    LET swept == SweepLoop(Now, gpContainerListHead, TRUE, 0, FALSE, NumCells + 1)
        res == Result("deinit", -1, <<>>, NULL, 0, ENONE, <<>>)
    IN /\ Ready
       /\ IF ~gInitialised
          THEN /\ last' = res
               /\ UNCHANGED <<heap, allocated, gpContainerListHead, gInitialised, gMutexContainer, gMutexCallbacks, crashed, call>>
          ELSE /\ Commit(swept.m, res)
               /\ gInitialised' = FALSE
               /\ UNCHANGED <<gMutexContainer, gMutexCallbacks>>
               /\ crashed' = swept.crash
       /\ UNCHANGED <<recording, module, lowOnMemory, pc, owner, retired, gNextDescriptor, modemOpen>>

\* The how argument of shutdown.
CELLULAR_SOCK_SHUTDOWN_READ == "READ"
CELLULAR_SOCK_SHUTDOWN_WRITE == "WRITE"
CELLULAR_SOCK_SHUTDOWN_READ_WRITE == "READ_WRITE"
ShutdownHows ==
    {CELLULAR_SOCK_SHUTDOWN_READ, CELLULAR_SOCK_SHUTDOWN_WRITE,
     CELLULAR_SOCK_SHUTDOWN_READ_WRITE}

\* cellularSockShutdown()
cellularSockShutdown(descriptor, how) ==
    LET m0 == init(Now, gInitialised)
        args == [how |-> how]
        pContainer == pContainerFindByDescriptor(m0, descriptor)
        to == CASE how = CELLULAR_SOCK_SHUTDOWN_READ -> SHUTDOWN_FOR_READ
                [] how = CELLULAR_SOCK_SHUTDOWN_WRITE -> SHUTDOWN_FOR_WRITE
                [] how = CELLULAR_SOCK_SHUTDOWN_READ_WRITE -> SHUTDOWN_FOR_READ_WRITE
        m1 == [m0 EXCEPT !.heap[pContainer].state = to]
    IN /\ Ready
       /\ gInitialised' = TRUE
       /\ CreateMutexes
       /\ IF pContainer = NULL
          THEN Failed(m0, "shutdown", descriptor, args, NULL, EBADF)
          ELSE IF how \notin ShutdownHows
          THEN Failed(m0, "shutdown", descriptor, args, pContainer, EINVAL)
          ELSE /\ Commit(m1, Result("shutdown", descriptor, args, pContainer,
                                    CELLULAR_SOCK_SUCCESS, ENONE, <<>>))
               /\ UNCHANGED <<recording, module, lowOnMemory, pc, owner, retired, gNextDescriptor, modemOpen, crashed>>

\* A faulty handler of +UUSOCL:, which schedules the callback and leaves the
\* state of the socket as it is.
LeavesOpen(modemHandle) ==
    LET pContainer == IF modemHandle >= 0
                      THEN pContainerFindByModemHandle(Now, modemHandle) ELSE NULL
        socket == heap[pContainer]
        scheduled == IF pContainer # NULL /\ socket.pConnectionClosedCallback # NULL
                     THEN <<socket.pConnectionClosedCallback>> ELSE <<>>
    IN /\ last' = Handled("+UUSOCL:", modemHandle, <<>>, pContainer, scheduled)
       /\ UNCHANGED <<heap, allocated, gpContainerListHead>>

\* UUSOCL_urc(): the handler of +UUSOCL: <socket>, run without the container
\* mutex.
UUSOCL_urc(modemHandle) ==
    LET pContainer == IF modemHandle >= 0
                      THEN pContainerFindByModemHandle(Now, modemHandle) ELSE NULL
        socket == heap[pContainer]
        scheduled == IF socket.pConnectionClosedCallback # NULL
                     THEN <<socket.pConnectionClosedCallback>> ELSE <<>>
    IN IF pContainer = NULL
       THEN /\ last' = Handled("+UUSOCL:", modemHandle, <<>>, NULL, <<>>)
            /\ UNCHANGED <<heap, allocated, gpContainerListHead>>
       ELSE /\ Store([Now EXCEPT !.heap[pContainer].state = CLOSED])
            /\ last' = Handled("+UUSOCL:", modemHandle, <<>>, pContainer, scheduled)

\* The modem reports that a socket it had open is closed (the far end has
\* closed it, or a close it was asked for asynchronously has completed) and
\* gives up the handle; or a +UUSOCL: arrives with a handle the modem does not
\* have open, or with one that does not parse (-1).  The AT transport hands
\* the line to the handler while one is registered.
SocketClosedUrc(modemHandle) ==
    /\ UrcReady
    /\ modemHandle \in modemOpen \/ gInitialised
    /\ modemOpen' = modemOpen \ {modemHandle}
    /\ IF gInitialised THEN UUSOCL_urc(modemHandle)
       ELSE UNCHANGED <<heap, allocated, gpContainerListHead, last>>
    /\ UNCHANGED <<recording, module, lowOnMemory, pc, owner, retired, gNextDescriptor, gInitialised, gMutexContainer, gMutexCallbacks, crashed, call>>

\* The caller takes the result of the call.
Returned ==
    /\ last # Idle
    /\ last' = Idle
    /\ UNCHANGED <<heap, allocated, gpContainerListHead, gNextDescriptor,
                   gInitialised, gMutexContainer, gMutexCallbacks, modemOpen, crashed, call, retired, recording, module, lowOnMemory, pc, owner>>

(***************************************************************************)
(* Sending.                                                                *)
(***************************************************************************)
\* CELLULAR_SOCK_MAX_SEGMENT_LENGTH_BYTES, the most bytes of one AT+USOST,
\* AT+USOWR, AT+USORD or AT+USORF.
CELLULAR_SOCK_MAX_SEGMENT_LENGTH_BYTES == 2
\* CELLULAR_SOCK_TCP_RETRY_LIMIT, the iterations of send() after which a
\* short acceptance ends it.
CELLULAR_SOCK_TCP_RETRY_LIMIT == 3
\* The largest byte count the modem reports as waiting.
MaxPending == 2

\* The dataSizeBytes arguments: none, a segment or less, more than a segment.
Sizes == 0..(CELLULAR_SOCK_MAX_SEGMENT_LENGTH_BYTES + 1)

\* The modem's answers to a command that announces size bytes on a handle: no
\* prompt, an error after the bytes, or a count of bytes taken; for a handle
\* it does not have open, no prompt or an error.
NoPrompt == -2
ModemError == -1
SendAnswers(handle, size) ==
    {NoPrompt, ModemError} \cup (IF handle \in modemOpen THEN 0..size ELSE {})

\* A faulty sendTo(), which writes its command whatever the length of the
\* data.
SendsAnyLength(socket, pRemoteAddress, dataSizeBytes, answer) ==
    [ret |-> IF answer >= 0 THEN answer ELSE CELLULAR_SOCK_BSD_ERROR,
     errno |-> IF answer = ModemError THEN EHOSTUNREACH ELSE ENONE,
     cmds |-> <<Exchange("AT+USOST=", socket.modemHandle,
                         [address |-> pRemoteAddress, size |-> dataSizeBytes],
                         answer)>>]

\* sendTo(): send data, UDP style.  What it returns, the errno it sets and
\* the command it writes, for one answer of the modem.
sendTo(socket, pRemoteAddress, dataSizeBytes, answer) ==
    LET cmds == <<Exchange("AT+USOST=", socket.modemHandle,
                           [address |-> pRemoteAddress, size |-> dataSizeBytes],
                           answer)>>
    IN IF ~addressToString(pRemoteAddress)
       THEN [ret |-> CELLULAR_SOCK_BSD_ERROR, errno |-> EDESTADDRREQ, cmds |-> <<>>]
       ELSE IF ~(dataSizeBytes > 0)
       THEN [ret |-> CELLULAR_SOCK_SUCCESS, errno |-> ENONE, cmds |-> <<>>]
       ELSE IF ~(dataSizeBytes <= CELLULAR_SOCK_MAX_SEGMENT_LENGTH_BYTES)
       THEN [ret |-> CELLULAR_SOCK_BSD_ERROR, errno |-> EMSGSIZE, cmds |-> <<>>]
       ELSE IF answer = NoPrompt
       THEN [ret |-> CELLULAR_SOCK_BSD_ERROR, errno |-> ENONE, cmds |-> cmds]
       ELSE IF answer = ModemError
       THEN [ret |-> CELLULAR_SOCK_BSD_ERROR, errno |-> EHOSTUNREACH, cmds |-> cmds]
       ELSE [ret |-> answer, errno |-> ENONE, cmds |-> cmds]

\* Whether sendTo() gets as far as the modem with these arguments.
sendToAsks(pRemoteAddress, dataSizeBytes) ==
    /\ addressToString(pRemoteAddress)
    /\ dataSizeBytes > 0
    /\ dataSizeBytes <= CELLULAR_SOCK_MAX_SEGMENT_LENGTH_BYTES

\* A faulty send(), which takes the data for sent as soon as the modem has
\* accepted a first segment.
SendsOneSegment(socket, dataSizeBytes, leftToSendSize, thisSendSize, loopCounter, cmds) ==
    LET this == IF leftToSendSize < thisSendSize THEN leftToSendSize
                ELSE thisSendSize
    IN {[ret |-> IF answer >= 0 THEN dataSizeBytes ELSE CELLULAR_SOCK_BSD_ERROR,
         errno |-> ENONE,
         cmds |-> Append(cmds, Exchange("AT+USOWR=", socket.modemHandle,
                                        [size |-> this, bytes |-> dataSizeBytes,
                                        from |-> dataSizeBytes - leftToSendSize],
                                        answer))] :
           answer \in SendAnswers(socket.modemHandle, this)}

\* A faulty send(), which gives up one iteration late: a short segment is
\* let through while the loop counter has not passed the retry limit.
RECURSIVE GivesUpLate(_, _, _, _, _, _)
GivesUpLate(socket, dataSizeBytes, leftToSendSize, thisSendSize, loopCounter, cmds) ==
    IF ~(leftToSendSize > 0)
    THEN {[ret |-> dataSizeBytes - leftToSendSize, errno |-> ENONE, cmds |-> cmds]}
    ELSE LET counter == loopCounter + 1
             this == IF leftToSendSize < thisSendSize THEN leftToSendSize
                     ELSE thisSendSize
             written(answer) ==
                 Append(cmds, Exchange("AT+USOWR=", socket.modemHandle,
                                       [size |-> this, bytes |-> dataSizeBytes,
                                        from |-> dataSizeBytes - leftToSendSize],
                                       answer))
             failure(answer) == [ret |-> CELLULAR_SOCK_BSD_ERROR, errno |-> ENONE,
                                 cmds |-> written(answer)]
             After(answer) ==
                 IF answer \in {NoPrompt, ModemError} THEN {failure(answer)}
                 ELSE IF answer < this /\ counter > CELLULAR_SOCK_TCP_RETRY_LIMIT
                 THEN {failure(answer)}
                 ELSE GivesUpLate(socket, dataSizeBytes, leftToSendSize - answer,
                                  this, counter, written(answer))
         IN UNION {After(answer) : answer \in SendAnswers(socket.modemHandle, this)}

\* send(): send data, TCP style.  The set of what it can return with the
\* commands it writes, over the answers of the modem, from one iteration of
\* its loop on.  Each command announces thisSendSize bytes and is followed by
\* dataSizeBytes bytes written, from pData where it has got to (from).
RECURSIVE send(_, _, _, _, _, _)
send(socket, dataSizeBytes, leftToSendSize, thisSendSize, loopCounter, cmds) ==
    IF ~(leftToSendSize > 0)
    THEN {[ret |-> dataSizeBytes - leftToSendSize, errno |-> ENONE, cmds |-> cmds]}
    ELSE LET counter == loopCounter + 1
             this == IF leftToSendSize < thisSendSize THEN leftToSendSize
                     ELSE thisSendSize
             written(answer) ==
                 Append(cmds, Exchange("AT+USOWR=", socket.modemHandle,
                                       [size |-> this, bytes |-> dataSizeBytes,
                                        from |-> dataSizeBytes - leftToSendSize],
                                       answer))
             failure(answer) == [ret |-> CELLULAR_SOCK_BSD_ERROR, errno |-> ENONE,
                                 cmds |-> written(answer)]
             After(answer) ==
                 IF answer \in {NoPrompt, ModemError} THEN {failure(answer)}
                 ELSE IF answer < this /\ counter >= CELLULAR_SOCK_TCP_RETRY_LIMIT
                 THEN {failure(answer)}
                 ELSE send(socket, dataSizeBytes, leftToSendSize - answer, this,
                           counter, written(answer))
         IN UNION {After(answer) : answer \in SendAnswers(socket.modemHandle, this)}

\* A faulty choice of destination, which prefers the address of a connected
\* socket to the one given.
RememberedFirst(socket, pRemoteAddress) ==
    IF socket.state = CONNECTED THEN socket.remoteAddress ELSE pRemoteAddress

\* The destination cellularSockSendTo() sends to: the address given or, with
\* none given, the remote address of a connected socket.
destination(socket, pRemoteAddress) ==
    IF pRemoteAddress = NoAddress /\ socket.state = CONNECTED
    THEN socket.remoteAddress
    ELSE pRemoteAddress

\* A data buffer argument: a buffer, or NULL.
Buffers == {"DATA", "NULL"}

\* cellularSockSendTo()
cellularSockSendTo(descriptor, pRemoteAddress, pData, dataSizeBytes) ==
    LET m0 == init(Now, gInitialised)
        args == [address |-> pRemoteAddress, data |-> pData, size |-> dataSizeBytes]
        pContainer == pContainerFindByDescriptor(m0, descriptor)
        socket == m0.heap[pContainer]
        stored == pRemoteAddress = NoAddress /\ socket.state = CONNECTED
        address == destination(socket, pRemoteAddress)
        errno == IF pRemoteAddress # NoAddress \/ stored THEN ENONE
                 ELSE IF socket.state \in {SHUTDOWN_FOR_WRITE, SHUTDOWN_FOR_READ_WRITE}
                 THEN ESHUTDOWN
                 ELSE IF socket.state = CLOSING THEN ENOTCONN
                 ELSE EDESTADDRREQ
        Sent(out) == Commit(m0, Result("sendTo", descriptor, args, pContainer,
                                       out.ret, out.errno, out.cmds))
    IN /\ Ready
       /\ gInitialised' = TRUE
       /\ CreateMutexes
       /\ UNCHANGED <<recording, module, lowOnMemory, pc, owner, retired, gNextDescriptor, modemOpen, crashed>>
       /\ IF pContainer = NULL
          THEN Commit(m0, Result("sendTo", descriptor, args, NULL,
                                 CELLULAR_SOCK_BSD_ERROR, EBADF, <<>>))
          ELSE IF errno # ENONE
          THEN Sent([ret |-> CELLULAR_SOCK_BSD_ERROR, errno |-> errno, cmds |-> <<>>])
          ELSE IF pData = "NULL" /\ dataSizeBytes > 0
          THEN Sent([ret |-> CELLULAR_SOCK_BSD_ERROR, errno |-> EINVAL, cmds |-> <<>>])
          ELSE IF pData # "NULL" /\ dataSizeBytes > 0
          THEN IF socket.protocol \in {UDP, TCP}
               THEN \E answer \in IF sendToAsks(address, dataSizeBytes)
                                  THEN SendAnswers(socket.modemHandle, dataSizeBytes)
                                  ELSE {NoPrompt} :
                        Sent(sendTo(socket, address, dataSizeBytes, answer))
               ELSE Sent([ret |-> CELLULAR_SOCK_BSD_ERROR, errno |-> EPROTOTYPE,
                          cmds |-> <<>>])
          ELSE Sent([ret |-> CELLULAR_SOCK_SUCCESS, errno |-> ENONE, cmds |-> <<>>])

\* A faulty choice of errno, which takes every socket that is not connected
\* for one that never was.
NeverConnected(state, shut) == EHOSTUNREACH

\* The errno of a stream call on a socket that is not connected: the
\* direction is shut down, the socket is closing, or neither.
NotConnected(state, shut) ==
    IF state \in {shut, SHUTDOWN_FOR_READ_WRITE} THEN ESHUTDOWN
    ELSE IF state = CLOSING THEN ENOTCONN
    ELSE EHOSTUNREACH

\* cellularSockWrite()
cellularSockWrite(descriptor, pData, dataSizeBytes) ==
    LET m0 == init(Now, gInitialised)
        args == [data |-> pData, size |-> dataSizeBytes]
        pContainer == pContainerFindByDescriptor(m0, descriptor)
        socket == m0.heap[pContainer]
        Sent(p, out) == Commit(m0, Result("write", descriptor, args, p,
                                          out.ret, out.errno, out.cmds))
        Fail(p, errno) ==
            Sent(p, [ret |-> CELLULAR_SOCK_BSD_ERROR, errno |-> errno, cmds |-> <<>>])
    IN /\ Ready
       /\ gInitialised' = TRUE
       /\ CreateMutexes
       /\ UNCHANGED <<recording, module, lowOnMemory, pc, owner, retired, gNextDescriptor, modemOpen, crashed>>
       /\ IF pData = "NULL" THEN Fail(NULL, EINVAL)
          ELSE IF pContainer = NULL THEN Fail(NULL, EBADF)
          ELSE IF socket.protocol # TCP THEN Fail(pContainer, EPROTOTYPE)
          ELSE IF socket.state # CONNECTED
          THEN Fail(pContainer, NotConnected(socket.state, SHUTDOWN_FOR_WRITE))
          ELSE IF dataSizeBytes > 0
          THEN \E out \in send(socket, dataSizeBytes, dataSizeBytes,
                               CELLULAR_SOCK_MAX_SEGMENT_LENGTH_BYTES, 0, <<>>) :
                    Sent(pContainer, out)
          ELSE Sent(pContainer, [ret |-> CELLULAR_SOCK_SUCCESS, errno |-> ENONE,
                                 cmds |-> <<>>])

(***************************************************************************)
(* Receiving.  receive() and receiveFrom() run with the container mutex    *)
(* held and give way to the URC handlers between the iterations of their   *)
(* loops: one step here is the entry of the call up to its loop, or one    *)
(* iteration of the loop.                                                  *)
(***************************************************************************)
\* The modem's answers to a query of the bytes waiting on a handle: a count,
\* or nothing that reads as a number (-1).
Counts(handle) == {-1} \cup (IF handle \in modemOpen THEN 0..MaxPending ELSE {})

\* The modem's answers to a read of up to size bytes on a handle: an error,
\* or a number of bytes (none included).
ReadAnswers(handle, size) ==
    {ModemError} \cup (IF handle \in modemOpen THEN 0..size ELSE {})

\* A receive call that has reached its loop.
Receiving(op, d, args, p, cmds) ==
    [op |-> op, d |-> d, args |-> args, p |-> p, before |-> Now,
     retired |-> retired, dataSizeBytes |-> args.size, receivedSize |-> IF op = "read" THEN 0 ELSE -1,
     elapsed |-> 0, cmds |-> cmds]

\* A faulty start, which never asks the modem and goes by the bytes it knows
\* to be pending.
NeverAsks(m, op, d, args, p, command) ==
    /\ Store(m)
    /\ call' = Receiving(op, d, args, p, <<>>)
    /\ last' = Idle

\* The start of receive() and receiveFrom(): with no bytes known to be
\* pending, ask the modem how many there are and take a count that reads; the
\* count read is kept with the command.
Probe(m, op, d, args, p, command) ==
    LET socket == m.heap[p]
        query(x) == <<Cmd(command, socket.modemHandle, 0) @@ [count |-> x]>>
    IN /\ IF socket.pendingBytes = 0
          THEN \E x \in Counts(socket.modemHandle) :
                /\ Store(IF x >= 0 THEN [m EXCEPT !.heap[p].pendingBytes = x] ELSE m)
                /\ call' = Receiving(op, d, args, p, query(x))
          ELSE /\ Store(m)
               /\ call' = Receiving(op, d, args, p, <<>>)
       /\ last' = Idle

\* The end of a receive call.
Finish(m, ret, errno, cmds) ==
    /\ Store(m)
    /\ call' = NoCall
    /\ last' = [op |-> call.op, d |-> call.d, args |-> call.args, p |-> call.p,
                before |-> call.before, retired |-> call.retired,
                ret |-> ret, errno |-> errno,
                cmds |-> cmds, scheduled |-> <<>>, elapsed |-> call.elapsed]

\* pendingBytes after actualReceiveSize bytes have been read.
Drained(pendingBytes, actualReceiveSize) ==
    IF actualReceiveSize > pendingBytes THEN 0 ELSE pendingBytes - actualReceiveSize

\* A faulty test, which lets a non-blocking socket wait like a blocking one.
WaitsInAnyMode(socket) == call.elapsed < socket.receiveTimeoutMs

\* The socket may wait for data: it is blocking and its timeout has not run out.
MayWait(socket) == ~socket.nonBlocking /\ call.elapsed < socket.receiveTimeoutMs

\* One iteration of the loop of receive(), TCP style.
receive ==
    LET socket == heap[call.p]
        wantedReceiveSize ==
            IF CELLULAR_SOCK_MAX_SEGMENT_LENGTH_BYTES > call.dataSizeBytes
            THEN call.dataSizeBytes ELSE CELLULAR_SOCK_MAX_SEGMENT_LENGTH_BYTES
        asked(answer) == Append(call.cmds, Exchange("AT+USORD=", socket.modemHandle,
                                                    wantedReceiveSize, answer))
    IN /\ UrcReady
       /\ call.op = "read"
       /\ UNCHANGED <<recording, module, lowOnMemory, pc, owner, retired, gNextDescriptor, gInitialised, gMutexContainer, gMutexCallbacks, modemOpen, crashed>>
       /\ IF socket.pendingBytes > 0
          THEN \E answer \in ReadAnswers(socket.modemHandle, wantedReceiveSize) :
                LET m1 == [Now EXCEPT !.heap[call.p].pendingBytes =
                                          Drained(@, answer)]
                    cmds == asked(answer)
                IN IF answer = ModemError
                   THEN Finish(Now, CELLULAR_SOCK_BSD_ERROR, ENONE, cmds)
                   ELSE IF ~(answer > 0)
                   THEN Finish(m1, CELLULAR_SOCK_BSD_ERROR, ENONE, cmds)
                   ELSE IF call.dataSizeBytes - answer > 0
                   THEN /\ Store(m1)
                        /\ call' = [call EXCEPT !.receivedSize = @ + answer,
                                                !.dataSizeBytes = @ - answer,
                                                !.cmds = cmds]
                        /\ UNCHANGED last
                   ELSE Finish(m1, call.receivedSize + answer, ENONE, cmds)
          ELSE IF MayWait(socket)
          THEN /\ call' = [call EXCEPT !.elapsed = @ + 1]
               /\ UNCHANGED <<heap, allocated, gpContainerListHead, last>>
          ELSE IF call.receivedSize = 0
          THEN Finish(Now, CELLULAR_SOCK_BSD_ERROR, EWOULDBLOCK, call.cmds)
          ELSE Finish(Now, call.receivedSize, ENONE, call.cmds)

\* The modem's answers to a read of a datagram on a handle: an error, or the
\* datagram with its length and whether the text of its source address is
\* one that cellularSockStringToAddress() takes.
DatagramAnswers(handle) ==
    {[error |-> TRUE, size |-> -1, source |-> TRUE]} \cup
    (IF handle \in modemOpen
     THEN {[error |-> FALSE, size |-> n, source |-> s] :
              n \in 0..(CELLULAR_SOCK_MAX_SEGMENT_LENGTH_BYTES + 1), s \in BOOLEAN}
     ELSE {})

\* One iteration of the loop of receiveFrom(), UDP style.  It returns the
\* length of the datagram, cut to the segment length.
receiveFrom ==
    LET socket == heap[call.p]
        asked(answer) == Append(call.cmds, Exchange("AT+USORF=", socket.modemHandle,
                                                    CELLULAR_SOCK_MAX_SEGMENT_LENGTH_BYTES,
                                                    answer))
    IN /\ UrcReady
       /\ call.op = "receiveFrom"
       /\ UNCHANGED <<recording, module, lowOnMemory, pc, owner, retired, gNextDescriptor, gInitialised, gMutexContainer, gMutexCallbacks, modemOpen, crashed>>
       /\ IF socket.pendingBytes > 0
          THEN \E answer \in DatagramAnswers(socket.modemHandle) :
                LET actualReceiveSize ==
                        IF answer.size > CELLULAR_SOCK_MAX_SEGMENT_LENGTH_BYTES
                        THEN CELLULAR_SOCK_MAX_SEGMENT_LENGTH_BYTES ELSE answer.size
                    m1 == [Now EXCEPT !.heap[call.p].pendingBytes =
                                          Drained(@, actualReceiveSize)]
                    success == call.args.address = NoAddress \/ answer.source
                    cmds == asked(answer)
                IN IF answer.error
                   THEN Finish(Now, CELLULAR_SOCK_BSD_ERROR, ENONE, cmds)
                   ELSE IF success
                   THEN Finish(m1, actualReceiveSize, ENONE, cmds)
                   ELSE Finish(m1, CELLULAR_SOCK_BSD_ERROR, ENONE, cmds)
          ELSE IF MayWait(socket)
          THEN /\ call' = [call EXCEPT !.elapsed = @ + 1]
               /\ UNCHANGED <<heap, allocated, gpContainerListHead, last>>
          ELSE Finish(Now, CELLULAR_SOCK_BSD_ERROR, EWOULDBLOCK, call.cmds)

\* cellularSockReceiveFrom(); pRemoteAddress is where the source address
\* goes, or NULL.
cellularSockReceiveFrom(descriptor, pRemoteAddress, pData, dataSizeBytes) ==
    LET m0 == init(Now, gInitialised)
        args == [address |-> pRemoteAddress, data |-> pData, size |-> dataSizeBytes]
        pContainer == pContainerFindByDescriptor(m0, descriptor)
        socket == m0.heap[pContainer]
        Fail(p, errno) == Commit(m0, Result("receiveFrom", descriptor, args, p,
                                            CELLULAR_SOCK_BSD_ERROR, errno, <<>>))
    IN /\ Ready
       /\ gInitialised' = TRUE
       /\ CreateMutexes
       /\ UNCHANGED <<recording, module, lowOnMemory, pc, owner, retired, gNextDescriptor, modemOpen, crashed>>
       /\ IF pContainer = NULL THEN Fail(NULL, EBADF)
          ELSE IF pData = "NULL" /\ dataSizeBytes > 0 THEN Fail(pContainer, EINVAL)
          ELSE IF ~(pData # "NULL" /\ dataSizeBytes > 0)
          THEN Commit(m0, Result("receiveFrom", descriptor, args, pContainer,
                                 CELLULAR_SOCK_SUCCESS, ENONE, <<>>))
          ELSE IF socket.protocol \notin {UDP, TCP} THEN Fail(pContainer, EPROTOTYPE)
          ELSE IF socket.state = CLOSING THEN Fail(pContainer, ENOTCONN)
          ELSE IF socket.state \in {SHUTDOWN_FOR_READ, SHUTDOWN_FOR_READ_WRITE}
          THEN Fail(pContainer, ESHUTDOWN)
          ELSE Probe(m0, "receiveFrom", descriptor, args, pContainer, "AT+USORF=")

\* cellularSockRead()
cellularSockRead(descriptor, pData, dataSizeBytes) ==
    LET m0 == init(Now, gInitialised)
        args == [data |-> pData, size |-> dataSizeBytes]
        pContainer == pContainerFindByDescriptor(m0, descriptor)
        socket == m0.heap[pContainer]
        Fail(p, errno) == Commit(m0, Result("read", descriptor, args, p,
                                            CELLULAR_SOCK_BSD_ERROR, errno, <<>>))
    IN /\ Ready
       /\ gInitialised' = TRUE
       /\ CreateMutexes
       /\ UNCHANGED <<recording, module, lowOnMemory, pc, owner, retired, gNextDescriptor, modemOpen, crashed>>
       /\ IF pContainer = NULL THEN Fail(NULL, EBADF)
          ELSE IF socket.protocol # TCP THEN Fail(pContainer, EPROTOTYPE)
          ELSE IF socket.state # CONNECTED
          THEN Fail(pContainer, NotConnected(socket.state, SHUTDOWN_FOR_READ))
          ELSE IF pData = "NULL" /\ dataSizeBytes > 0 THEN Fail(pContainer, EINVAL)
          ELSE IF pData # "NULL" /\ dataSizeBytes # 0
          THEN Probe(m0, "read", descriptor, args, pContainer, "AT+USORD=")
          ELSE Commit(m0, Result("read", descriptor, args, pContainer,
                                 CELLULAR_SOCK_SUCCESS, ENONE, <<>>))

(***************************************************************************)
(* Options and callbacks.                                                  *)
(***************************************************************************)
\* The number of callback functions the application has.
NumCallbacks == 1
Callbacks == 1..NumCallbacks

\* A call that looks the socket up and then works on it: Work(m, p) is the
\* memory, the value returned, the errno set and the commands written.
OnSocket(op, descriptor, args, Work(_, _)) ==
    LET m0 == init(Now, gInitialised)
        pContainer == pContainerFindByDescriptor(m0, descriptor)
        out == Work(m0, pContainer)
    IN /\ Ready
       /\ gInitialised' = TRUE
       /\ CreateMutexes
       /\ UNCHANGED <<recording, module, lowOnMemory, pc, owner, retired, gNextDescriptor, modemOpen, crashed>>
       /\ IF pContainer = NULL
          THEN Commit(m0, Result(op, descriptor, args, NULL,
                                 CELLULAR_SOCK_BSD_ERROR, EBADF, <<>>))
          ELSE Commit(out.m, Result(op, descriptor, args, pContainer,
                                    out.ret, out.errno, out.cmds))

Local(m, ret, errno) == [m |-> m, ret |-> ret, errno |-> errno, cmds |-> <<>>]

\* The command argument of fcntl and ioctl.
SET_STATUS == "SET_STATUS"
GET_STATUS == "GET_STATUS"
SET_NONBLOCK == "SET_NONBLOCK"

\* cellularSockFcntl(); ones is whether (value | CELLULAR_SOCK_FCNTL_STATUS_NONBLOCK)
\* is 1, and GET_STATUS returns 1 for the value of that flag.
cellularSockFcntl(descriptor, command, ones) ==
    LET Work(m, p) ==
            IF command = SET_STATUS
            THEN Local([m EXCEPT !.heap[p].nonBlocking = ones], CELLULAR_SOCK_SUCCESS, ENONE)
            ELSE IF command = GET_STATUS
            THEN Local(m, IF m.heap[p].nonBlocking THEN 1 ELSE 0, ENONE)
            ELSE Local(m, CELLULAR_SOCK_BSD_ERROR, EINVAL)
    IN OnSocket("fcntl", descriptor, [command |-> command, value |-> ones], Work)

\* cellularSockIoctl(); pValue is "NULL", or the integer pointed to is zero
\* ("ZERO") or not ("NONZERO").
cellularSockIoctl(descriptor, command, pValue) ==
    LET Work(m, p) ==
            IF command = SET_NONBLOCK
            THEN IF pValue # "NULL"
                 THEN Local([m EXCEPT !.heap[p].nonBlocking = (pValue # "ZERO")],
                            CELLULAR_SOCK_SUCCESS, ENONE)
                 ELSE Local(m, CELLULAR_SOCK_BSD_ERROR, ENONE)
            ELSE Local(m, CELLULAR_SOCK_BSD_ERROR, EINVAL)
    IN OnSocket("ioctl", descriptor, [command |-> command, value |-> pValue], Work)

\* The option named by level and option: one with an integer as its
\* parameter, linger, the receive timeout, or one that is not supported.
OPT_INT == "INT"
OPT_LINGER == "LINGER"
OPT_RCVTIMEO == "RCVTIMEO"
Options == {OPT_INT, OPT_LINGER, OPT_RCVTIMEO, "INVALID"}

\* The receive timeouts an application sets, in polling intervals; -1 is a
\* NULL value pointer or a length that does not fit the option.
Timeouts == 0..1

\* cellularSockSetOption(), with setOptionInt() and setOptionLinger(): value
\* is -1 for a value that is missing or too short for the option.
cellularSockSetOption(descriptor, option, value, ok) ==
    LET Work(m, p) ==
            LET cmds == <<Cmd("AT+USOSO=", m.heap[p].modemHandle, option)>>
            IN IF option \in {OPT_INT, OPT_LINGER}
               THEN IF value >= 0
                    THEN IF ok
                         THEN [m |-> m, ret |-> CELLULAR_SOCK_SUCCESS, errno |-> ENONE,
                               cmds |-> cmds]
                         ELSE [m |-> m, ret |-> CELLULAR_SOCK_BSD_ERROR, errno |-> EINVAL,
                               cmds |-> cmds]
                    ELSE Local(m, CELLULAR_SOCK_BSD_ERROR, EINVAL)
               ELSE IF option = OPT_RCVTIMEO /\ value >= 0
               THEN Local([m EXCEPT !.heap[p].receiveTimeoutMs = value],
                          CELLULAR_SOCK_SUCCESS, ENONE)
               ELSE Local(m, CELLULAR_SOCK_BSD_ERROR, EINVAL)
    IN OnSocket("setOption", descriptor, [option |-> option, value |-> value], Work)

\* cellularSockGetOption(), with getOptionInt() and getOptionLinger(), called
\* with room for the value; answer is what the modem reports, -1 being
\* nothing that reads as a number.
cellularSockGetOption(descriptor, option, ok, answer) ==
    LET Work(m, p) ==
            LET cmds == <<Cmd("AT+USOGO=", m.heap[p].modemHandle, option)>>
            IN IF option = OPT_INT
               THEN [m |-> m, cmds |-> cmds,
                     ret |-> IF ok /\ answer >= 0 THEN CELLULAR_SOCK_SUCCESS
                             ELSE CELLULAR_SOCK_BSD_ERROR,
                     errno |-> IF ok /\ answer >= 0 THEN ENONE ELSE EINVAL]
               ELSE IF option = OPT_LINGER
               THEN [m |-> m, cmds |-> cmds,
                     ret |-> IF ok /\ answer >= 0 THEN CELLULAR_SOCK_SUCCESS
                             ELSE CELLULAR_SOCK_BSD_ERROR,
                     errno |-> IF ~ok THEN EINVAL
                               ELSE IF answer >= 0 THEN ENONE ELSE EIO]
               ELSE IF option = OPT_RCVTIMEO
               THEN Local(m, CELLULAR_SOCK_SUCCESS, ENONE)
               ELSE Local(m, CELLULAR_SOCK_BSD_ERROR, EINVAL)
    IN OnSocket("getOption", descriptor, [option |-> option], Work)

\* cellularSockRegisterCallbackData()
cellularSockRegisterCallbackData(descriptor, pCallback) ==
    LET Work(m, p) == Local([m EXCEPT !.heap[p].pPendingDataCallback = pCallback],
                            CELLULAR_SOCK_SUCCESS, ENONE)
    IN OnSocket("registerCallbackData", descriptor, [callback |-> pCallback], Work)

\* cellularSockRegisterCallbackClosed()
cellularSockRegisterCallbackClosed(descriptor, pCallback) ==
    LET Work(m, p) == Local([m EXCEPT !.heap[p].pConnectionClosedCallback = pCallback],
                            CELLULAR_SOCK_SUCCESS, ENONE)
    IN OnSocket("registerCallbackClosed", descriptor, [callback |-> pCallback], Work)

\* A faulty handler of +UUSORD:, which adds the length reported to the bytes
\* already pending.
AddsToPending(modemHandle, dataSizeBytes) ==
    LET pContainer == IF modemHandle >= 0
                      THEN pContainerFindByModemHandle(Now, modemHandle) ELSE NULL
        socket == heap[pContainer]
        scheduled == IF socket.pPendingDataCallback # NULL
                     THEN <<socket.pPendingDataCallback>> ELSE <<>>
        args == [size |-> dataSizeBytes]
    IN IF pContainer = NULL
       THEN /\ last' = Handled("+UUSORD:", modemHandle, args, NULL, <<>>)
            /\ UNCHANGED <<heap, allocated, gpContainerListHead>>
       ELSE /\ Store([Now EXCEPT !.heap[pContainer].pendingBytes = @ + dataSizeBytes])
            /\ last' = Handled("+UUSORD:", modemHandle, args, pContainer, scheduled)

\* UUSORD_UUSORF_urc(): the handler of +UUSORD: and +UUSORF: <socket>,<length>,
\* run without the container mutex.
UUSORD_UUSORF_urc(modemHandle, dataSizeBytes) ==
    LET pContainer == IF modemHandle >= 0
                      THEN pContainerFindByModemHandle(Now, modemHandle) ELSE NULL
        socket == heap[pContainer]
        scheduled == IF socket.pPendingDataCallback # NULL
                     THEN <<socket.pPendingDataCallback>> ELSE <<>>
        args == [size |-> dataSizeBytes]
    IN IF pContainer = NULL
       THEN /\ last' = Handled("+UUSORD:", modemHandle, args, NULL, <<>>)
            /\ UNCHANGED <<heap, allocated, gpContainerListHead>>
       ELSE /\ Store([Now EXCEPT !.heap[pContainer].pendingBytes = dataSizeBytes])
            /\ last' = Handled("+UUSORD:", modemHandle, args, pContainer, scheduled)

\* The modem reports data waiting on a socket (a length that does not parse
\* reads as -1); the AT transport hands the line to the handler while one is
\* registered.
DataUrc(modemHandle, dataSizeBytes) ==
    /\ UrcReady
    /\ gInitialised
    /\ UUSORD_UUSORF_urc(modemHandle, dataSizeBytes)
    /\ UNCHANGED <<recording, module, lowOnMemory, pc, owner, retired, gNextDescriptor, gInitialised, gMutexContainer, gMutexCallbacks, modemOpen, crashed, call>>

(***************************************************************************)
(* The program and its environment.                                        *)
(***************************************************************************)
Init ==
    /\ heap = [c \in Cells |-> ZeroContainer]
    /\ allocated = {}
    /\ gpContainerListHead = NULL
    /\ gNextDescriptor = 0
    /\ gInitialised = FALSE
    /\ modemOpen = {}
    /\ crashed = FALSE
    /\ call = NoCall
    /\ retired = {}
    /\ recording = {}
    /\ module \in Modules
    /\ lowOnMemory = FALSE
    /\ gMutexContainer = NULL
    /\ gMutexCallbacks = NULL
    /\ pc = [t \in 0..NumThreads |-> [todo |-> <<>>, open |-> FALSE]]
    /\ owner = [l \in {"gMutexContainer", "gMutexCallbacks", "at"} |-> -1]
    /\ last = Idle

\* The same start, with the history of closes kept.
InitRecording ==
    /\ heap = [c \in Cells |-> ZeroContainer]
    /\ allocated = {}
    /\ gpContainerListHead = NULL
    /\ gNextDescriptor = 0
    /\ gInitialised = FALSE
    /\ modemOpen = {}
    /\ crashed = FALSE
    /\ call = NoCall
    /\ retired = {}
    /\ recording = {0}
    /\ module \in Modules
    /\ lowOnMemory = FALSE
    /\ gMutexContainer = NULL
    /\ gMutexCallbacks = NULL
    /\ pc = [t \in 0..NumThreads |-> [todo |-> <<>>, open |-> FALSE]]
    /\ owner = [l \in {"gMutexContainer", "gMutexCallbacks", "at"} |-> -1]
    /\ last = Idle

\* The arguments of create: the supported pairs, an unsupported type and an
\* unsupported protocol.
CreateArguments ==
    {<<STREAM, TCP>>, <<DGRAM, UDP>>, <<UNSUPPORTED, TCP>>, <<STREAM, UNSUPPORTED>>}

Create == \E a \in CreateArguments : cellularSockCreate(a[1], a[2])

Connect ==
    \E descriptor \in Descriptors, pRemoteAddress \in {"A1", NoAddress, BadAddress} :
        cellularSockConnect(descriptor, pRemoteAddress)

Close == \E descriptor \in Descriptors : cellularSockClose(descriptor)

CleanUp == cellularSockCleanUp

Deinit == cellularSockDeinit

Shutdown ==
    \E descriptor \in Descriptors, how \in ShutdownHows \cup {"INVALID"} :
        cellularSockShutdown(descriptor, how)

UrcClosed == \E modemHandle \in Handles \cup {-1} : SocketClosedUrc(modemHandle)

SendTo ==
    \E descriptor \in Descriptors, pRemoteAddress \in {"A2", NoAddress, BadAddress},
       pData \in Buffers, dataSizeBytes \in Sizes :
        cellularSockSendTo(descriptor, pRemoteAddress, pData, dataSizeBytes)

Write ==
    \E descriptor \in Descriptors, pData \in Buffers, dataSizeBytes \in Sizes :
        cellularSockWrite(descriptor, pData, dataSizeBytes)

ReceiveFrom ==
    \E descriptor \in Descriptors, pRemoteAddress \in {"BUFFER", NoAddress},
       pData \in Buffers, dataSizeBytes \in Sizes :
        cellularSockReceiveFrom(descriptor, pRemoteAddress, pData, dataSizeBytes)

Read ==
    \E descriptor \in Descriptors, pData \in Buffers, dataSizeBytes \in Sizes :
        cellularSockRead(descriptor, pData, dataSizeBytes)

UrcData ==
    \E modemHandle \in Handles \cup {-1}, dataSizeBytes \in (0..MaxPending) \cup {-1} :
        DataUrc(modemHandle, dataSizeBytes)

\* An application whose calls all have well-formed arguments: a buffer of one
\* byte, a destination or none, an option the modem knows.
PlainSendTo ==
    \E descriptor \in Descriptors, pRemoteAddress \in {"A2", NoAddress} :
        cellularSockSendTo(descriptor, pRemoteAddress, "DATA", 1)

PlainWrite == \E descriptor \in Descriptors : cellularSockWrite(descriptor, "DATA", 1)

PlainReceiveFrom ==
    \E descriptor \in Descriptors : cellularSockReceiveFrom(descriptor, NoAddress, "DATA", 1)

PlainRead == \E descriptor \in Descriptors : cellularSockRead(descriptor, "DATA", 1)

PlainConnect == \E descriptor \in Descriptors : cellularSockConnect(descriptor, "A1")

PlainShutdown ==
    \E descriptor \in Descriptors, how \in ShutdownHows : cellularSockShutdown(descriptor, how)

PlainFcntl == \E descriptor \in Descriptors : cellularSockFcntl(descriptor, SET_STATUS, TRUE)

PlainIoctl == \E descriptor \in Descriptors : cellularSockIoctl(descriptor, SET_NONBLOCK, "NONZERO")

PlainSetOption ==
    \E descriptor \in Descriptors, ok \in BOOLEAN :
        cellularSockSetOption(descriptor, OPT_INT, 0, ok)

PlainGetOption ==
    \E descriptor \in Descriptors, ok \in BOOLEAN :
        cellularSockGetOption(descriptor, OPT_INT, ok, 0)

PlainRegisterCallbackData ==
    \E descriptor \in Descriptors, pCallback \in Callbacks :
        cellularSockRegisterCallbackData(descriptor, pCallback)

PlainRegisterCallbackClosed ==
    \E descriptor \in Descriptors, pCallback \in Callbacks :
        cellularSockRegisterCallbackClosed(descriptor, pCallback)

PlainUrcData == \E modemHandle \in Handles : DataUrc(modemHandle, 1)

\* A create of a TCP socket, or one the API turns down.
CreateStream ==
    \E a \in CreateArguments \ {<<DGRAM, UDP>>} : cellularSockCreate(a[1], a[2])

\* The pool and the life of its sockets, which are TCP sockets, every call
\* well-formed.
Next ==
    \/ CreateStream
    \/ PlainConnect
    \/ Close
    \/ CleanUp
    \/ Deinit
    \/ PlainShutdown
    \/ UrcClosed
    \/ Returned

Spec == Init /\ [][Next]_vars

\* The start on a system that may have no memory left when init() creates a
\* mutex.
InitLowOnMemory ==
    /\ heap = [c \in Cells |-> ZeroContainer]
    /\ allocated = {}
    /\ gpContainerListHead = NULL
    /\ gNextDescriptor = 0
    /\ gInitialised = FALSE
    /\ modemOpen = {}
    /\ crashed = FALSE
    /\ call = NoCall
    /\ retired = {}
    /\ recording = {}
    /\ module = "SARA_R5"
    /\ lowOnMemory = TRUE
    /\ gMutexContainer = NULL
    /\ gMutexCallbacks = NULL
    /\ pc = [t \in 0..NumThreads |-> [todo |-> <<>>, open |-> FALSE]]
    /\ owner = [l \in {"gMutexContainer", "gMutexCallbacks", "at"} |-> -1]
    /\ last = Idle

\* The calls that set the subsystem up and tear it down, on such a system.
NextLowOnMemory ==
    \/ CreateStream
    \/ PlainConnect
    \/ Close
    \/ Deinit
    \/ Returned

SpecLowOnMemory == InitLowOnMemory /\ [][NextLowOnMemory]_vars

(***************************************************************************)
(* Tasks and locks.  What a call does to the locks and to the AT           *)
(* interface, step by step: <<"lock", l>> and <<"unlock", l>> for the two  *)
(* mutexes and for cellular_ctrl_at_lock()/unlock(); <<"write", x>> for a  *)
(* command token or payload written; <<"read", x>> for a prompt or a       *)
(* response read, which the AT parser delivers; <<"block", x>> for a sleep *)
(* and <<"work", x>> for what touches neither a lock nor the interface.    *)
(***************************************************************************)

\* cellularSockCreate() with a container to be had.
cellularSockCreateSteps ==
    << <<"lock", "gMutexContainer">>,
       <<"lock", "at">>,
       <<"write", "AT+USOCR=">>, <<"write", "protocol">>, <<"write", "cmd_stop">>,
       <<"read", "+USOCR:">>, <<"read", "modemHandle">>, <<"read", "resp_stop">>,
       <<"unlock", "at">>,
       <<"unlock", "gMutexContainer">> >>

\* A faulty send(), which writes with the AT interface not locked.
SendsUnlocked(prompts) ==
    LET Iteration(prompt) ==
            << <<"write", "AT+USOWR=">>, <<"write", "modemHandle">>,
               <<"write", "thisSendSize">>, <<"write", "cmd_stop">>,
               <<"read", "@">> >>
            \o (IF prompt
                THEN << <<"block", "50">>, <<"write", "pData">>,
                        <<"read", "+USOWR:">>, <<"read", "skip_param">>,
                        <<"read", "sentSize">>, <<"read", "resp_stop">> >>
                ELSE << >>)
        All[i \in 0..Len(prompts)] ==
            IF i = 0 THEN << >> ELSE All[i - 1] \o Iteration(prompts[i])
    IN << <<"lock", "gMutexContainer">> >> \o All[Len(prompts)]
       \o << <<"unlock", "gMutexContainer">> >>

\* cellularSockWrite() on a connected socket: send(), one iteration for each
\* element of prompts, which says whether the modem gave the prompt.
cellularSockWriteSteps(prompts) ==
    LET Iteration(prompt) ==
            << <<"lock", "at">>,
               <<"write", "AT+USOWR=">>, <<"write", "modemHandle">>,
               <<"write", "thisSendSize">>, <<"write", "cmd_stop">>,
               <<"read", "@">> >>
            \o (IF prompt
                THEN << <<"block", "50">>, <<"write", "pData">>,
                        <<"read", "+USOWR:">>, <<"read", "skip_param">>,
                        <<"read", "sentSize">>, <<"read", "resp_stop">>,
                        <<"unlock", "at">> >>
                ELSE << <<"unlock", "at">> >>)
        All[i \in 0..Len(prompts)] ==
            IF i = 0 THEN << >> ELSE All[i - 1] \o Iteration(prompts[i])
    IN << <<"lock", "gMutexContainer">> >> \o All[Len(prompts)]
       \o << <<"unlock", "gMutexContainer">> >>

\* cellularSockReceiveFrom() on a socket that may receive: receiveFrom(),
\* which asks for the count when it has none, sleeps while it waits and
\* reads a packet when there is one.
cellularSockReceiveFromSteps(asks, sleeps, reads) ==
    LET Query(size) ==
            << <<"lock", "at">>,
               <<"write", "AT+USORF=">>, <<"write", "modemHandle">>,
               <<"write", size>>, <<"write", "cmd_stop">>,
               <<"read", "+USORF:">>, <<"read", "skip_param">> >>
    IN << <<"lock", "gMutexContainer">> >>
       \o (IF asks
           THEN Query("0") \o << <<"read", "x">>, <<"read", "resp_stop">>,
                                 <<"unlock", "at">> >>
           ELSE << >>)
       \o [i \in 1..sleeps |-> <<"block", "10">>]
       \o (IF reads
           THEN Query("CELLULAR_SOCK_MAX_SEGMENT_LENGTH_BYTES")
                \o << <<"read", "buffer">>, <<"read", "x">>,
                      <<"read", "actualReceiveSize">>, <<"read", "pData">>,
                      <<"read", "resp_stop">>, <<"unlock", "at">> >>
           ELSE << >>)
       \o << <<"unlock", "gMutexContainer">> >>

\* cellularSockRegisterCallbackData() on a descriptor that is found.
cellularSockRegisterCallbackDataSteps ==
    << <<"lock", "gMutexContainer">>,
       <<"lock", "gMutexCallbacks">>,
       <<"work", "pPendingDataCallback">>,
       <<"unlock", "gMutexCallbacks">>,
       <<"unlock", "gMutexContainer">> >>

\* cellularSockGetHostByName(), which uses neither mutex.
cellularSockGetHostByNameSteps ==
    << <<"lock", "at">>,
       <<"write", "AT+UDNSRN=">>, <<"write", "0">>, <<"write", "pHostName">>,
       <<"write", "cmd_stop">>,
       <<"read", "+UDNSRN:">>, <<"read", "buffer">>, <<"read", "resp_stop">>,
       <<"unlock", "at">> >>

\* A faulty URC handler, which locks the container mutex for its lookup.
LocksPoolInUrc(found) ==
    << <<"work", "modemHandle">>, <<"work", "dataSizeBytes">> >>
    \o (IF found
        THEN << <<"lock", "gMutexContainer">>,
                <<"work", "pendingBytes">>,
                <<"lock", "gMutexCallbacks">>,
                <<"work", "cellular_ctrl_at_callback">>,
                <<"unlock", "gMutexCallbacks">>,
                <<"unlock", "gMutexContainer">> >>
        ELSE << >>)

\* UUSORD_UUSORF_urc(), run by the AT parser: the two parameters of the URC
\* and, for a socket that is found, the count and the callback.
UUSORD_UUSORF_urcSteps(found) ==
    << <<"work", "modemHandle">>, <<"work", "dataSizeBytes">> >>
    \o (IF found
        THEN << <<"work", "pendingBytes">>,
                <<"lock", "gMutexCallbacks">>,
                <<"work", "cellular_ctrl_at_callback">>,
                <<"unlock", "gMutexCallbacks">> >>
        ELSE << >>)

\* One step of a task.  A task with nothing to do begins a call (task 0: the
\* handler of a URC that has come in).  A lock is taken when it is free and
\* the task waits until then; a response is read when the AT parser is not
\* inside a URC handler.  An exchange is open from the first token written
\* until the AT interface is unlocked or the call ends.
TaskStep(t) ==
    LET todo == pc[t].todo
        step == Head(todo)
        rest == Tail(todo)
        Calls == IF t = 0
                 THEN {UUSORD_UUSORF_urcSteps(found) : found \in BOOLEAN}
                 ELSE {cellularSockCreateSteps, cellularSockRegisterCallbackDataSteps,
                       cellularSockGetHostByNameSteps}
                      \cup {cellularSockWriteSteps(prompts) :
                                prompts \in {<<TRUE>>, <<FALSE>>, <<TRUE, TRUE>>}}
                      \cup {cellularSockReceiveFromSteps(asks, sleeps, reads) :
                                asks \in BOOLEAN, sleeps \in 0..1, reads \in BOOLEAN}
        open == IF rest = << >> \/ step = <<"unlock", "at">> THEN FALSE
                ELSE pc[t].open \/ step[1] \in {"write", "read"}
    IN /\ ~crashed
       /\ \/ /\ todo = << >>
             /\ \E steps \in Calls : pc' = [pc EXCEPT ![t] = [todo |-> steps, open |-> FALSE]]
             /\ UNCHANGED owner
          \/ /\ todo # << >>
             /\ step[1] = "lock" => owner[step[2]] = -1
             /\ step[1] = "read" => pc[0].todo = << >>
             /\ pc' = [pc EXCEPT ![t] = [todo |-> rest, open |-> open]]
             /\ owner' = IF step[1] = "lock" THEN [owner EXCEPT ![step[2]] = t]
                         ELSE IF step[1] = "unlock" THEN [owner EXCEPT ![step[2]] = -1]
                         ELSE owner
       /\ UNCHANGED <<heap, allocated, gpContainerListHead, gNextDescriptor, gInitialised,
                      modemOpen, crashed, call, retired, recording, module, lowOnMemory,
                      gMutexContainer, gMutexCallbacks, last>>

\* The tasks of the application and the AT parser, each at its own pace.
NextThreads == \E t \in 0..NumThreads : TaskStep(t)

SpecThreads == Init /\ [][NextThreads]_vars

(***************************************************************************)
(* Addresses as text.  A text is the sequence of its characters; an        *)
(* address is its type, the 32-bit words of ipAddress.address (one for     *)
(* ipv4, ipv6[0] to ipv6[3] for ipv6), each word the pair of its high and  *)
(* low 16 bits, and its port.                                              *)
(***************************************************************************)

\* cellularSockStringToAddress() with pAddress not NULL: IPV4 when the text
\* has a dot in it, as ipv4StringToAddress() reads it, or else as
\* ipv6StringToAddress() does.  sscanf() reads each number as the longest
\* run of digits, at least one, and stops where the text does not fit;
\* strtol() gives 0 when there is no digit.
cellularSockStringToAddress(pAddressString) ==
    LET text == pAddressString
        Lower == <<"0", "1", "2", "3", "4", "5", "6", "7", "8", "9",
                   "a", "b", "c", "d", "e", "f">>
        Upper == <<"0", "1", "2", "3", "4", "5", "6", "7", "8", "9",
                   "A", "B", "C", "D", "E", "F">>
        IsDigit(c, base) == \E i \in 1..base : Lower[i] = c \/ Upper[i] = c
        DigitOf(c) == (CHOOSE i \in 1..16 : Lower[i] = c \/ Upper[i] = c) - 1
        strchr(from, c) ==
            IF \E i \in from..Len(text) : text[i] = c
            THEN CHOOSE i \in from..Len(text) :
                     text[i] = c /\ \A j \in from..(i - 1) : text[j] # c
            ELSE 0
        RunEnd(from, base) ==
            CHOOSE j \in from..(Len(text) + 1) :
                /\ j = Len(text) + 1 \/ ~IsDigit(text[j], base)
                /\ \A k \in from..(j - 1) : IsDigit(text[k], base)
        Number(from, end, base) ==
            LET N[k \in (from - 1)..(end - 1)] ==
                    IF k = from - 1 THEN 0 ELSE N[k - 1] * base + DigitOf(text[k])
            IN N[end - 1]
        strtol(from) == Number(from, RunEnd(from, 10), 10)
        sscanf(from, base, separator, count) ==
            LET F[k \in 0..count] ==
                    IF k = 0 THEN [values |-> << >>, at |-> from, ok |-> TRUE]
                    ELSE LET p == F[k - 1]
                             fits == p.ok /\ (k = 1 \/ (p.at <= Len(text) /\ text[p.at] = separator))
                             start == IF k = 1 THEN p.at ELSE p.at + 1
                             end == IF fits THEN RunEnd(start, base) ELSE start
                         IN IF fits /\ end > start
                            THEN [values |-> Append(p.values, Number(start, end, base)),
                                  at |-> end, ok |-> TRUE]
                            ELSE [p EXCEPT !.ok = FALSE]
            IN F[count].values
        Address(type, words, port) == [type |-> type, words |-> words, port |-> port]
        Done(success, address) ==
            [errorCode |-> IF success THEN "SUCCESS" ELSE "INVALID_ADDRESS",
             address |-> address]
        ipv4StringToAddress ==
            LET n == sscanf(1, 10, ".", 4)
                pColon == strchr(1, ":")
                port == IF pColon # 0 THEN strtol(pColon + 1) ELSE 0
            IN IF Len(n) # 4 \/ \E i \in 1..4 : n[i] > 255
               THEN Done(FALSE, Address("V4", << <<0, 0>> >>, 0))
               ELSE LET ipv4 == <<n[1] * 2^8 + n[2], n[3] * 2^8 + n[4]>>
                    IN IF port <= 65535
                       THEN Done(TRUE, Address("V4", <<ipv4>>, port))
                       ELSE Done(FALSE, Address("V4", <<ipv4>>, 0))
        ipv6StringToAddress ==
            LET hasPort == Len(text) > 0 /\ text[1] = "["
                n == sscanf(IF hasPort THEN 2 ELSE 1, 16, ":", 8)
                words == << <<n[7], n[8]>>, <<n[5], n[6]>>, <<n[3], n[4]>>, <<n[1], n[2]>> >>
                pBracket == strchr(2, "]")
                pStr == IF pBracket # 0 THEN strchr(pBracket, ":") ELSE 0
                port == IF pStr # 0 THEN strtol(pStr + 1) ELSE 0
            IN IF Len(n) # 8 \/ \E i \in 1..8 : n[i] > 65535
               THEN Done(FALSE, Address("V6", [x \in 1..4 |-> <<0, 0>>], 0))
               ELSE IF ~hasPort THEN Done(TRUE, Address("V6", words, 0))
               ELSE IF pBracket = 0 THEN Done(FALSE, Address("V6", words, 0))
               ELSE IF port <= 65535 THEN Done(TRUE, Address("V6", words, port))
               ELSE Done(FALSE, Address("V6", words, 0))
    IN IF strchr(1, ".") # 0 THEN ipv4StringToAddress ELSE ipv6StringToAddress

\* A faulty ipAddressToString(), which prints the words of an IPV6 address
\* from ipv6[0] up.
PrintsLowWordFirst(pIpAddress) ==
    LET Lower == <<"0", "1", "2", "3", "4", "5", "6", "7", "8", "9",
                   "a", "b", "c", "d", "e", "f">>
        RECURSIVE snprintf(_, _)
        snprintf(n, base) ==
            IF n < base THEN <<Lower[n + 1]>>
            ELSE snprintf(n \div base, base) \o <<Lower[(n % base) + 1]>>
        w == pIpAddress.words
        Pair(x) == snprintf(w[x][1] % 2^16, 16) \o <<":">> \o snprintf(w[x][2] % 2^16, 16)
    IN IF pIpAddress.type = "V4"
       THEN snprintf((w[1][1] \div 2^8) % 256, 10) \o <<".">>
            \o snprintf(w[1][1] % 256, 10) \o <<".">>
            \o snprintf((w[1][2] \div 2^8) % 256, 10) \o <<".">>
            \o snprintf(w[1][2] % 256, 10)
       ELSE Pair(1) \o <<":">> \o Pair(2) \o <<":">> \o Pair(3) \o <<":">> \o Pair(4)

\* ipAddressToString() into a buffer that is long enough: an IPV4 address as
\* four decimal numbers, an IPV6 address as eight hexadecimal ones, from
\* ipv6[3] down, no leading zeroes.
ipAddressToString(pIpAddress) ==
    LET Lower == <<"0", "1", "2", "3", "4", "5", "6", "7", "8", "9",
                   "a", "b", "c", "d", "e", "f">>
        RECURSIVE snprintf(_, _)
        snprintf(n, base) ==
            IF n < base THEN <<Lower[n + 1]>>
            ELSE snprintf(n \div base, base) \o <<Lower[(n % base) + 1]>>
        w == pIpAddress.words
        Pair(x) == snprintf(w[x][1] % 2^16, 16) \o <<":">> \o snprintf(w[x][2] % 2^16, 16)
    IN IF pIpAddress.type = "V4"
       THEN snprintf((w[1][1] \div 2^8) % 256, 10) \o <<".">>
            \o snprintf(w[1][1] % 256, 10) \o <<".">>
            \o snprintf((w[1][2] \div 2^8) % 256, 10) \o <<".">>
            \o snprintf(w[1][2] % 256, 10)
       ELSE Pair(4) \o <<":">> \o Pair(3) \o <<":">> \o Pair(2) \o <<":">> \o Pair(1)

\* cellularSockAddressToString() into a buffer that is long enough:
\* addressToString() with the port number, an IPV6 address in square
\* brackets.
cellularSockAddressToString(pAddress) ==
    LET Lower == <<"0", "1", "2", "3", "4", "5", "6", "7", "8", "9">>
        RECURSIVE snprintf(_)
        snprintf(n) ==
            IF n < 10 THEN <<Lower[n + 1]>>
            ELSE snprintf(n \div 10) \o <<Lower[(n % 10) + 1]>>
        ip == ipAddressToString(pAddress)
    IN (IF pAddress.type = "V6" THEN <<"[">> \o ip \o <<"]">> ELSE ip)
       \o <<":">> \o snprintf(pAddress.port)

\* A call of cellularSockStringToAddress() with the text of an IPV4 address,
\* alone or with a port number, or of the eight groups of an IPV6 address,
\* alone, in square brackets or in square brackets with a port number.
StringToAddress ==
    LET Octets == {<<"0">>, <<"0", "7">>, <<"2", "5", "5">>}
        Ports == {<<"0">>, <<"8", "0">>, <<"6", "5", "5", "3", "5">>}
        Groups == {<<"0", "D", "b", "8">>, <<"f", "f", "f", "f">>}
        V4 == {a \o <<".">> \o b \o <<".">> \o c \o <<".">> \o d :
                   a \in Octets, b \in Octets, c \in Octets, d \in Octets}
        V6 == {g[1] \o <<":">> \o g[2] \o <<":">> \o g[3] \o <<":">> \o g[4] \o <<":">>
               \o g[5] \o <<":">> \o g[6] \o <<":">> \o g[7] \o <<":">> \o g[8] :
                   g \in [1..8 -> Groups]}
        Texts == V4 \cup {t \o <<":">> \o p : t \in V4, p \in Ports}
                 \cup V6 \cup {<<"[">> \o t \o <<"]">> : t \in V6}
                 \cup {<<"[">> \o t \o <<"]", ":">> \o p : t \in V6, p \in Ports}
    IN /\ Ready
       /\ \E pAddressString \in Texts :
            LET done == cellularSockStringToAddress(pAddressString)
            IN last' = [op |-> "stringToAddress", text |-> pAddressString,
                        ret |-> done.errorCode, address |-> done.address]
       /\ UNCHANGED <<heap, allocated, gpContainerListHead, gNextDescriptor, gInitialised,
                      modemOpen, crashed, call, retired, recording, module, lowOnMemory,
                      pc, owner, gMutexContainer, gMutexCallbacks>>

\* The conversions of addresses, which need no socket.
NextAddress ==
    \/ StringToAddress
    \/ Returned

SpecAddress == Init /\ [][NextAddress]_vars

(***************************************************************************)
(* Calls from two tasks.  init() runs before the container mutex is taken, *)
(* so a call of another task can run between the init() of a               *)
(* cellularSockCreate() and the rest of it.                                *)
(***************************************************************************)
\* The start of cellularSockCreate() up to its CELLULAR_PORT_MUTEX_LOCK: init().
CreateEnters ==
    \E a \in {<<STREAM, TCP>>} :
        /\ Ready
        /\ Store(init(Now, gInitialised))
        /\ gInitialised' = TRUE
        /\ CreateMutexes
        /\ call' = [op |-> "create", args |-> [type |-> a[1], protocol |-> a[2]]]
        /\ UNCHANGED <<recording, module, lowOnMemory, pc, owner, retired, gNextDescriptor, modemOpen, crashed, last>>

\* The start of a URC handler in the task of the AT parser, up to the
\* container its lookup by modem handle finds; with +UUSOCL: the modem has
\* given up the handle.
UrcFinds ==
    \E urc \in {"+UUSORD:", "+UUSOCL:"}, modemHandle \in Handles :
        LET pContainer == pContainerFindByModemHandle(Now, modemHandle)
        IN /\ Ready
           /\ gInitialised
           /\ pContainer # NULL
           /\ call' = [op |-> urc, d |-> modemHandle, p |-> pContainer,
                       args |-> IF urc = "+UUSORD:" THEN [size |-> 1] ELSE << >>]
           /\ modemOpen' = IF urc = "+UUSOCL:" THEN modemOpen \ {modemHandle} ELSE modemOpen
           /\ UNCHANGED <<heap, allocated, gpContainerListHead, gNextDescriptor, gInitialised,
                          gMutexContainer, gMutexCallbacks, crashed, retired, recording,
                          module, lowOnMemory, pc, owner, last>>

\* The rest of the URC handler: it writes pendingBytes or the state into the
\* container it found and reads the callback from it.  On a block that has
\* been freed since, that is a use of freed memory (ub): the program stops,
\* or goes on with whatever callback the memory reads as.
UrcGoesOn ==
    LET pContainer == call.p
        socket == heap[pContainer]
        callback == IF call.op = "+UUSORD:" THEN socket.pPendingDataCallback
                    ELSE socket.pConnectionClosedCallback
        written == IF call.op = "+UUSORD:"
                   THEN [Now EXCEPT !.heap[pContainer].pendingBytes = call.args.size]
                   ELSE [Now EXCEPT !.heap[pContainer].state = CLOSED]
    IN /\ UrcReady
       /\ call.op \in {"+UUSORD:", "+UUSOCL:"}
       /\ call' = NoCall
       /\ IF pContainer \in Live(allocated)
          THEN /\ Store(written)
               /\ last' = Handled(call.op, call.d, call.args, pContainer,
                                  IF callback # NULL THEN <<callback>> ELSE << >>)
               /\ UNCHANGED crashed
          ELSE /\ \E stops \in BOOLEAN, garbage \in {NULL} \cup Callbacks :
                    /\ crashed' = stops
                    /\ last' = Handled(call.op, call.d, call.args, pContainer,
                                       IF garbage # NULL /\ ~stops THEN <<garbage>> ELSE << >>)
               /\ UNCHANGED <<heap, allocated, gpContainerListHead>>
       /\ UNCHANGED <<gNextDescriptor, gInitialised, gMutexContainer, gMutexCallbacks,
                      modemOpen, retired, recording, module, lowOnMemory, pc, owner>>

\* cellularSockCleanUp() in another task, while a create waits for the mutex
\* or a URC handler, which takes no container mutex, is under way.
CleanUpMeanwhile ==
    LET swept == SweepLoop(Now, gpContainerListHead, FALSE, 0, FALSE, NumCells + 1)
        res == Result("cleanUp", -1, [swept |-> gInitialised], NULL, 0, ENONE, <<>>)
    IN /\ UrcReady
       /\ call.op \in {"create", "+UUSORD:", "+UUSOCL:"}
       /\ last' = res
       /\ IF ~gInitialised
          THEN UNCHANGED <<heap, allocated, gpContainerListHead, gInitialised, crashed>>
          ELSE /\ Store(swept.m)
               /\ gInitialised' = (swept.numNonClosedSockets # 0)
               /\ crashed' = swept.crash
       /\ UNCHANGED <<recording, module, lowOnMemory, pc, owner, retired, gNextDescriptor, modemOpen, gMutexContainer, gMutexCallbacks, call>>

\* The rest of the cellularSockCreate() that has entered, with the mutex.
CreateGoesOn ==
    /\ UrcReady
    /\ call.op = "create"
    /\ create(Now, call.args.type, call.args.protocol)
    /\ UNCHANGED <<gInitialised, gMutexContainer, gMutexCallbacks>>

\* The tasks of the application and of the AT parser: sockets are created,
\* connected and closed and the list is swept, also while a create or a URC
\* handler is under way.
NextTasks ==
    \/ CreateEnters
    \/ CleanUpMeanwhile
    \/ CreateGoesOn
    \/ UrcFinds
    \/ UrcGoesOn
    \/ CreateStream
    \/ PlainConnect
    \/ Close
    \/ CleanUp
    \/ Returned

SpecTasks == Init /\ [][NextTasks]_vars

\* An application that has one socket at a time.
CreateAlone == numContainersInUse(Now) = 0 /\ Create

\* One socket at a time, used as a stream, with arguments of every kind.
NextStream ==
    \/ CreateAlone
    \/ Connect
    \/ Close
    \/ Shutdown
    \/ UrcClosed
    \/ Write
    \/ Read
    \/ receive
    \/ UrcData
    \/ Returned

SpecStream == Init /\ [][NextStream]_vars

\* One socket at a time, used for datagrams, with arguments of every kind.
NextDatagram ==
    \/ CreateAlone
    \/ PlainConnect
    \/ Close
    \/ PlainShutdown
    \/ UrcClosed
    \/ SendTo
    \/ ReceiveFrom
    \/ receiveFrom
    \/ PlainUrcData
    \/ Returned

SpecDatagram == Init /\ [][NextDatagram]_vars

\* One socket at a time and every call of the API, well-formed.
NextCalls ==
    \/ CreateAlone
    \/ PlainConnect
    \/ Close
    \/ PlainShutdown
    \/ CleanUp
    \/ UrcClosed
    \/ PlainSendTo
    \/ PlainWrite
    \/ PlainReceiveFrom
    \/ PlainRead
    \/ receive
    \/ receiveFrom
    \/ PlainFcntl
    \/ PlainIoctl
    \/ PlainSetOption
    \/ PlainGetOption
    \/ PlainRegisterCallbackData
    \/ PlainRegisterCallbackClosed
    \/ PlainUrcData
    \/ Returned

SpecCalls == Init /\ [][NextCalls]_vars

\* The same without a cleanup sweep, and with the descriptors that a close has
\* retired on record.
NextRetired ==
    \/ CreateAlone
    \/ PlainConnect
    \/ Close
    \/ PlainShutdown
    \/ UrcClosed
    \/ PlainSendTo
    \/ PlainWrite
    \/ PlainReceiveFrom
    \/ PlainRead
    \/ receive
    \/ receiveFrom
    \/ PlainFcntl
    \/ PlainIoctl
    \/ PlainSetOption
    \/ PlainGetOption
    \/ PlainRegisterCallbackData
    \/ PlainRegisterCallbackClosed
    \/ PlainUrcData
    \/ Returned

SpecRetired == InitRecording /\ [][NextRetired]_vars

\* A +UUSORD: with any handle, one that does not parse (-1) included, and
\* a length of nothing or of one byte.
ShortUrcData ==
    \E modemHandle \in Handles \cup {-1}, dataSizeBytes \in 0..1 :
        DataUrc(modemHandle, dataSizeBytes)

\* The sockets of the pool with their callbacks, and the URCs of the modem.
NextUrc ==
    \/ CreateStream
    \/ PlainRegisterCallbackData
    \/ PlainRegisterCallbackClosed
    \/ UrcClosed
    \/ ShortUrcData
    \/ Returned

\* No step of NextUrc depends on the build: one build is enough.
InitUrc == Init /\ module = "SARA_R5"

SpecUrc == InitUrc /\ [][NextUrc]_vars

(***************************************************************************)
(* Properties.                                                             *)
(***************************************************************************)
\* The containers of the list, and those of them that are not CLOSED.
Linked(m) == LET ch == Chain(m.heap, m.head) IN {ch[i] : i \in 1..Len(ch)}
NonClosed(m) == {c \in Linked(m) : m.heap[c].state # CLOSED}

\* A create that was given a supported type and protocol.
SupportedCreate(res) ==
    /\ res.op = "create"
    /\ res.args.type \in {STREAM, DGRAM}
    /\ res.args.protocol \in {TCP, UDP}

\* C1: no two containers of the list whose state is not CLOSED carry the same
\* descriptor, and the descriptor a successful create returns is the
\* descriptor of no socket that was non-closed when create was called.
C1_UniqueDescriptor ==
    /\ \A a, b \in NonClosed(Now) :
            a # b => heap[a].descriptor # heap[b].descriptor
    /\ (last.op = "create" /\ last.ret >= 0) =>
            \A c \in NonClosed(last.before) :
                last.before.heap[c].descriptor # last.ret

\* A successful create while another socket was non-closed, after which two
\* sockets are non-closed.
C1_Witness ==
    /\ last.op = "create"
    /\ last.ret >= 0
    /\ NonClosed(last.before) # {}
    /\ Cardinality(NonClosed(Now)) = 2

\* C2: the number of containers whose state is not CLOSED never exceeds
\* CELLULAR_SOCK_MAX, and a create called with that many non-closed fails with
\* ENOBUFS, writes no command to the modem and changes no container.
C2_Cap ==
    /\ Cardinality(NonClosed(Now)) <= SockMax
    /\ (SupportedCreate(last) /\ Cardinality(NonClosed(last.before)) >= SockMax) =>
            /\ last.ret = CELLULAR_SOCK_BSD_ERROR
            /\ last.errno = ENOBUFS
            /\ last.cmds = <<>>
            /\ Now = last.before

\* A create called with CELLULAR_SOCK_MAX sockets non-closed, one of them
\* CLOSING, while the heap has a block to give.
C2_Witness ==
    /\ SupportedCreate(last)
    /\ Cardinality(NonClosed(last.before)) = SockMax
    /\ \E c \in NonClosed(last.before) : last.before.heap[c].state = CLOSING
    /\ DynamicCells \ last.before.alloc # {}

\* C3: a modem handle >= 0 is carried by at most one container whose state is
\* not CLOSED, and it is a handle the modem has open, so that the lookup by
\* modem handle finds the socket the modem means.
C3_UniqueModemHandle ==
    /\ \A a, b \in NonClosed(Now) :
            (a # b /\ heap[a].modemHandle >= 0) =>
                heap[a].modemHandle # heap[b].modemHandle
    /\ \A c \in NonClosed(Now) :
            heap[c].modemHandle >= 0 => heap[c].modemHandle \in modemOpen

\* A socket gets a handle that a container CLOSED since has carried, while
\* another socket is non-closed with a handle of its own.
C3_Witness ==
    /\ last.op = "create"
    /\ last.ret >= 0
    /\ \E c \in Linked(last.before) :
            /\ last.before.heap[c].state = CLOSED
            /\ last.before.heap[c].modemHandle = heap[last.p].modemHandle
    /\ \E c \in NonClosed(Now) : c # last.p /\ heap[c].modemHandle >= 0

\* The container a call was made on: the one its descriptor found when it was
\* made, and that container as it was then.
Target(res) == pContainerFindByDescriptor(res.before, res.d)
Before(res) == res.before.heap[Target(res)]

\* The calls of the API that take a descriptor, close apart.
SocketCalls ==
    {"connect", "shutdown", "sendTo", "write", "receiveFrom", "read", "fcntl", "ioctl",
     "setOption", "getOption", "registerCallbackData", "registerCallbackClosed"}

\* A call that failed with the given errno and wrote nothing to the modem.
Rejected(res, errno) ==
    /\ res.ret = CELLULAR_SOCK_BSD_ERROR
    /\ res.errno = errno
    /\ res.cmds = <<>>

\* C4: once close has succeeded on a UDP socket, or on a TCP socket that is
\* not CONNECTED, every call of the API on that descriptor fails with EBADF
\* and writes nothing to the modem, until a create returns the descriptor
\* again.
C4_ClosedDescriptorIsBad ==
    (last.op \in SocketCalls \cup {"close"} /\ last.d \in last.retired) =>
        Rejected(last, EBADF)

C6_ClosingStays ==
    (/\ last.op \in SocketCalls \cup {"+UUSORD:"}
     /\ last.p # NULL
     /\ last.before.heap[last.p].state = CLOSING) =>
        heap[last.p].state = CLOSING

\* C7: connect on a non-closed socket, given an address, succeeds only from
\* CREATED, makes the socket CONNECTED and stores the address; in every other
\* non-closed state it fails with EPERM, writes nothing to the modem and
\* changes nothing.
C7_ConnectOnlyFromCreated ==
    (/\ last.op = "connect"
     /\ last.args.address \in GoodAddresses
     /\ Target(last) # NULL) =>
        /\ last.ret = CELLULAR_SOCK_SUCCESS =>
              /\ Before(last).state = CREATED
              /\ heap[Target(last)].state = CONNECTED
              /\ heap[Target(last)].remoteAddress = last.args.address
        /\ Before(last).state # CREATED =>
              /\ Rejected(last, EPERM)
              /\ Now = last.before

\* A connect on a socket that is shut down for write, turned down with EPERM.
C7_Witness ==
    /\ last.op = "connect"
    /\ last.args.address \in GoodAddresses
    /\ Target(last) # NULL
    /\ Before(last).state = SHUTDOWN_FOR_WRITE
    /\ last.errno = EPERM

\* The errno C8 names for a stream call in a state that is not CONNECTED.
C8_Errno(op, state) ==
    IF state = SHUTDOWN_FOR_READ_WRITE THEN ESHUTDOWN
    ELSE IF op = "write" /\ state = SHUTDOWN_FOR_WRITE THEN ESHUTDOWN
    ELSE IF op = "read" /\ state = SHUTDOWN_FOR_READ THEN ESHUTDOWN
    ELSE IF state = CLOSING THEN ENOTCONN
    ELSE EHOSTUNREACH

\* C8: a write (given a buffer) or a read on a TCP socket reaches the modem
\* only when the socket is CONNECTED; otherwise it fails with no command
\* written, with ESHUTDOWN when the direction is shut down, ENOTCONN when the
\* socket is CLOSING and EHOSTUNREACH otherwise.
C8_StreamOnlyConnected ==
    (/\ last.op \in {"write", "read"}
     /\ last.op = "write" => last.args.data # "NULL"
     /\ Target(last) # NULL
     /\ Before(last).protocol = TCP) =>
        /\ last.cmds # <<>> => Before(last).state = CONNECTED
        /\ Before(last).state # CONNECTED =>
              Rejected(last, C8_Errno(last.op, Before(last).state))

\* A write on a TCP socket that never was connected, turned down with
\* EHOSTUNREACH.
C8_Witness ==
    /\ last.op = "write"
    /\ last.args.data # "NULL"
    /\ Target(last) # NULL
    /\ Before(last).protocol = TCP
    /\ Before(last).state = CREATED
    /\ Rejected(last, EHOSTUNREACH)

\* C9: on a socket that create has returned, a sendTo with a payload of a
\* segment or less, with no destination given or with a well-formed one, is
\* rejected with ESHUTDOWN on a socket
\* shut down for write and with ENOTCONN on a CLOSING one; a receiveFrom is
\* rejected with ESHUTDOWN on a socket shut down for read and with ENOTCONN on
\* a CLOSING one; nothing is written to the modem.
C9_DatagramRejected ==
    (/\ last.op \in {"sendTo", "receiveFrom"}
     /\ last.args.data # "NULL"
     /\ last.args.size \in 1..CELLULAR_SOCK_MAX_SEGMENT_LENGTH_BYTES
     /\ last.op = "sendTo" => last.args.address \in GoodAddresses \cup {NoAddress}
     /\ Target(last) # NULL
     /\ Before(last).modemHandle >= 0) =>
        LET state == Before(last).state
            shut == IF last.op = "sendTo" THEN SHUTDOWN_FOR_WRITE ELSE SHUTDOWN_FOR_READ
        IN /\ state \in {shut, SHUTDOWN_FOR_READ_WRITE} => Rejected(last, ESHUTDOWN)
           /\ state = CLOSING => Rejected(last, ENOTCONN)

\* C10: sendTo sends to the address given when one is given; with none given
\* it sends to the remote address of the socket if and only if the socket is
\* CONNECTED, and on a CREATED socket it fails with EDESTADDRREQ and writes
\* nothing.
C10_Destination ==
    (/\ last.op = "sendTo"
     /\ last.args.data # "NULL"
     /\ last.args.size \in 1..CELLULAR_SOCK_MAX_SEGMENT_LENGTH_BYTES
     /\ Target(last) # NULL) =>
        /\ last.args.address \in GoodAddresses =>
              /\ Len(last.cmds) = 1
              /\ last.cmds[1].args.address = last.args.address
        /\ last.args.address = NoAddress =>
              /\ last.cmds # <<>> <=> Before(last).state = CONNECTED
              /\ last.cmds # <<>> =>
                    last.cmds[1].args.address = Before(last).remoteAddress
        /\ (last.args.address = NoAddress /\ Before(last).state = CREATED) =>
              Rejected(last, EDESTADDRREQ)

\* A sendTo on a connected socket to an address other than the one it is
\* connected to.
C10_Witness ==
    /\ last.op = "sendTo"
    /\ last.args.data # "NULL"
    /\ last.args.size \in 1..CELLULAR_SOCK_MAX_SEGMENT_LENGTH_BYTES
    /\ Target(last) # NULL
    /\ Before(last).state = CONNECTED
    /\ last.args.address \in GoodAddresses \ {Before(last).remoteAddress}
    /\ last.ret = last.args.size

\* A sendTo that got as far as sendTo() with a destination that is an
\* address: the descriptor is found, data is given, and the address given or,
\* with none given, the one the connected socket remembers, is well formed.
ReachedSendTo(res) ==
    /\ res.op = "sendTo"
    /\ Target(res) # NULL
    /\ res.args.data # "NULL"
    /\ res.args.size > 0
    /\ \/ res.args.address \in GoodAddresses
       \/ /\ res.args.address = NoAddress
          /\ Before(res).state = CONNECTED
          /\ Before(res).remoteAddress \in GoodAddresses

\* C11: a sendTo of more than CELLULAR_SOCK_MAX_SEGMENT_LENGTH_BYTES bytes
\* fails with EMSGSIZE and writes no command; a sendTo of one byte up to that
\* many writes exactly one AT+USOST command on the socket's handle announcing
\* the whole length and, when the modem acknowledges it with a count, returns
\* that count.
C11_SegmentLength ==
    ReachedSendTo(last) =>
        /\ last.args.size > CELLULAR_SOCK_MAX_SEGMENT_LENGTH_BYTES =>
              Rejected(last, EMSGSIZE)
        /\ last.args.size <= CELLULAR_SOCK_MAX_SEGMENT_LENGTH_BYTES =>
              /\ Len(last.cmds) = 1
              /\ last.cmds[1].cmd = "AT+USOST="
              /\ last.cmds[1].handle = Before(last).modemHandle
              /\ last.cmds[1].args.size = last.args.size
              /\ last.cmds[1].answer >= 0 =>
                    /\ last.ret = last.cmds[1].answer
                    /\ last.errno = ENONE

\* A sendTo of one byte too many, which failed with EMSGSIZE.
C11_Witness ==
    /\ ReachedSendTo(last)
    /\ last.args.size = CELLULAR_SOCK_MAX_SEGMENT_LENGTH_BYTES + 1
    /\ Rejected(last, EMSGSIZE)

\* The number of bytes the modem accepted, or gave, over a sequence of
\* commands: the sum of the counts it answered.
RECURSIVE Accepted(_)
Accepted(cmds) ==
    IF cmds = <<>> THEN 0
    ELSE (IF "answer" \in DOMAIN Head(cmds) /\ Head(cmds).answer >= 0
          THEN Head(cmds).answer ELSE 0) + Accepted(Tail(cmds))

\* A write that got as far as send(): a TCP socket in state CONNECTED, data
\* given and at least one byte of it.
ReachedSend(res) ==
    /\ res.op = "write"
    /\ res.args.data # "NULL"
    /\ res.args.size > 0
    /\ Target(res) # NULL
    /\ Before(res).protocol = TCP
    /\ Before(res).state = CONNECTED

\* The modem accepted at least one byte of every segment.
EverAccepting(cmds) == \A i \in 1..Len(cmds) : cmds[i].answer >= 1

\* C12: a write of N bytes on a connected TCP socket, of which the modem
\* accepts at least one byte in every iteration, returns N whenever the
\* modem has accepted all N bytes in fewer iterations than
\* CELLULAR_SOCK_TCP_RETRY_LIMIT, and whenever it returns a count the bytes
\* accepted over the iterations add up to N and to that count.
C12_WriteReturnsAll ==
    (ReachedSend(last) /\ EverAccepting(last.cmds)) =>
        /\ (/\ Len(last.cmds) < CELLULAR_SOCK_TCP_RETRY_LIMIT
            /\ Accepted(last.cmds) = last.args.size) =>
              /\ last.ret = last.args.size
              /\ last.errno = ENONE
        /\ last.ret >= 0 =>
              /\ last.ret = last.args.size
              /\ Accepted(last.cmds) = last.args.size

\* A write of more than one segment which the modem accepted in two
\* iterations, the first of them short of what was announced.
C12_Witness ==
    /\ ReachedSend(last)
    /\ last.args.size > CELLULAR_SOCK_MAX_SEGMENT_LENGTH_BYTES
    /\ Len(last.cmds) = 2
    /\ Len(last.cmds) < CELLULAR_SOCK_TCP_RETRY_LIMIT
    /\ last.cmds[1].answer \in 1..(last.cmds[1].args.size - 1)
    /\ Accepted(last.cmds) = last.args.size
    /\ last.ret = last.args.size

\* The modem accepted less than was announced in exchange i.
Short(cmds, i) == cmds[i].answer \in 0..(cmds[i].args.size - 1)

\* C13 as stated: a write never takes more than CELLULAR_SOCK_TCP_RETRY_LIMIT
\* iterations, and one that reaches that many iterations with bytes still to
\* send after them returns a negative error.
C13_IterationsCapped ==
    ReachedSend(last) =>
        /\ Len(last.cmds) <= CELLULAR_SOCK_TCP_RETRY_LIMIT
        /\ (/\ Len(last.cmds) >= CELLULAR_SOCK_TCP_RETRY_LIMIT
            /\ Accepted(SubSeq(last.cmds, 1, CELLULAR_SOCK_TCP_RETRY_LIMIT))
                  < last.args.size) => last.ret < 0

\* C13, amended: a write ends for every behaviour of the modem.  From
\* iteration CELLULAR_SOCK_TCP_RETRY_LIMIT on, an iteration in which the
\* modem accepts less than was announced is the last one and the write
\* returns a negative error, so that every later iteration sends at least
\* one byte and the iterations number less than the limit plus the bytes
\* to send; an iteration in which the modem accepts all that was announced
\* goes on to the next, the limit reached or not.
C13_SendEnds ==
    ReachedSend(last) =>
        /\ \A i \in 1..Len(last.cmds) :
              (i >= CELLULAR_SOCK_TCP_RETRY_LIMIT /\ Short(last.cmds, i)) =>
                  /\ i = Len(last.cmds)
                  /\ last.ret < 0
        /\ Len(last.cmds) < CELLULAR_SOCK_TCP_RETRY_LIMIT + last.args.size

\* A write that stopped with an error in iteration
\* CELLULAR_SOCK_TCP_RETRY_LIMIT, where the modem accepted less than was
\* announced, with bytes accepted before.
C13_Witness ==
    /\ ReachedSend(last)
    /\ Len(last.cmds) = CELLULAR_SOCK_TCP_RETRY_LIMIT
    /\ Short(last.cmds, Len(last.cmds))
    /\ Accepted(last.cmds) > 0
    /\ last.ret < 0

\* C14: a write or a read that has transferred at least one byte when it
\* stops returns the number of bytes transferred so far, never a negative
\* error.
C14_PartialIsSuccess ==
    (last.op \in {"write", "read"} /\ Accepted(last.cmds) >= 1) =>
        /\ last.ret = Accepted(last.cmds)
        /\ last.errno = ENONE

\* A read or receiveFrom that went round its loop and came back without
\* having asked the modem for data: no bytes were pending when it began or
\* the modem, asked how many there are, gave none, and no URC announced any
\* while it waited.
FoundNoData(res) ==
    /\ res.op \in {"read", "receiveFrom"}
    /\ "elapsed" \in DOMAIN res
    /\ \A i \in 1..Len(res.cmds) : "answer" \notin DOMAIN res.cmds[i]

\* C15: a read or receiveFrom with a buffer to fill that finds no data
\* pending fails with EWOULDBLOCK and never returns 0; on a non-blocking
\* socket it does so without having slept, on a blocking socket only once
\* the time elapsed has reached receiveTimeoutMs.
C15_WouldBlock ==
    FoundNoData(last) =>
        /\ last.args.data # "NULL" /\ last.args.size > 0
        /\ last.ret = CELLULAR_SOCK_BSD_ERROR
        /\ last.errno = EWOULDBLOCK
        /\ Before(last).nonBlocking => last.elapsed = 0
        /\ ~Before(last).nonBlocking =>
              last.elapsed >= Before(last).receiveTimeoutMs

\* A receiveFrom on a blocking socket that failed with EWOULDBLOCK when its
\* timeout had run out.
C15_Witness ==
    /\ FoundNoData(last)
    /\ last.op = "receiveFrom"
    /\ ~Before(last).nonBlocking
    /\ Before(last).receiveTimeoutMs > 0
    /\ last.elapsed = Before(last).receiveTimeoutMs
    /\ last.errno = EWOULDBLOCK

\* A receiveFrom that read a datagram from the modem and handed it over: the
\* last command of the call is a read which the modem answered with a
\* datagram, and the source address, where it was asked for, was taken.
GotDatagram(res) ==
    /\ res.op = "receiveFrom"
    /\ "elapsed" \in DOMAIN res
    /\ res.cmds # <<>>
    /\ "answer" \in DOMAIN res.cmds[Len(res.cmds)]
    /\ ~res.cmds[Len(res.cmds)].answer.error
    /\ res.args.address = NoAddress \/ res.cmds[Len(res.cmds)].answer.source

\* C16: a receiveFrom into a buffer of B bytes, when the next datagram is
\* longer than B, returns B.
C16_TruncatedToBuffer ==
    (/\ GotDatagram(last)
     /\ last.cmds[Len(last.cmds)].answer.size > last.args.size) =>
        last.ret = last.args.size

\* The non-closed containers of the list that have the given modem handle.
Named(m, modemHandle) == {c \in NonClosed(m) : m.heap[c].modemHandle = modemHandle}

\* Memory is as it was before the call or URC, the given container apart.
SameButFor(res, p) ==
    /\ \A c \in Cells \ {p} : heap[c] = res.before.heap[c]
    /\ gpContainerListHead = res.before.head
    /\ allocated = res.before.alloc

\* C17: a +UUSORD: or +UUSORF: that names the handle of a non-closed socket
\* sets pendingBytes of that socket to the length reported, whatever it was,
\* changes no other field of its container and no other container, and
\* schedules the data callback once if one is registered, and nothing
\* otherwise.
C17_DataUrcFrame ==
    (/\ last.op = "+UUSORD:"
     /\ last.d >= 0
     /\ Named(last.before, last.d) # {}) =>
        /\ last.p \in Named(last.before, last.d)
        /\ heap[last.p] = [last.before.heap[last.p] EXCEPT
                               !.pendingBytes = last.args.size]
        /\ SameButFor(last, last.p)
        /\ last.scheduled =
              IF last.before.heap[last.p].pPendingDataCallback # NULL
              THEN <<last.before.heap[last.p].pPendingDataCallback>> ELSE <<>>

\* A +UUSORD: reporting no bytes for a socket that had one byte pending and
\* a data callback, while another socket is open without a callback.
C17_Witness ==
    /\ last.op = "+UUSORD:"
    /\ last.p # NULL
    /\ last.before.heap[last.p].pendingBytes = 1
    /\ last.args.size = 0
    /\ heap[last.p].pendingBytes = 0
    /\ last.scheduled # <<>>
    /\ \E c \in NonClosed(Now) \ {last.p} :
          heap[c].modemHandle >= 0 /\ heap[c].pPendingDataCallback = NULL

\* C18: a +UUSOCL: that names the handle of a non-closed socket sets the
\* state of that socket to CLOSED, whatever state it was in, and schedules
\* the closed callback once if one is registered, and nothing otherwise;
\* after it no lookup finds the socket, by its descriptor or by its handle,
\* so that a +UUSOCL: repeated for the handle finds no container, and a
\* +UUSOCL: that finds no container schedules nothing.
C18_ClosedUrc ==
    /\ (/\ last.op = "+UUSOCL:"
        /\ last.d >= 0
        /\ Named(last.before, last.d) # {}) =>
           /\ last.p \in Named(last.before, last.d)
           /\ heap[last.p].state = CLOSED
           /\ last.scheduled =
                 IF last.before.heap[last.p].pConnectionClosedCallback # NULL
                 THEN <<last.before.heap[last.p].pConnectionClosedCallback>>
                 ELSE <<>>
           /\ \A c \in NonClosed(Now) :
                 heap[c].descriptor # last.before.heap[last.p].descriptor
           /\ Named(Now, last.d) = {}
    /\ (last.op = "+UUSOCL:" /\ Named(last.before, last.d) = {}) =>
           last.scheduled = <<>>

\* A +UUSOCL: for a socket that was closing, with a closed callback
\* registered, which scheduled the callback.
C18_Witness ==
    /\ last.op = "+UUSOCL:"
    /\ last.p # NULL
    /\ last.before.heap[last.p].state = CLOSING
    /\ last.before.heap[last.p].pConnectionClosedCallback # NULL
    /\ heap[last.p].state = CLOSED
    /\ Len(last.scheduled) = 1

\* C19: a +UUSORD:, +UUSORF: or +UUSOCL: whose handle is negative, or is the
\* handle of no container, or only that of containers in state CLOSED, finds
\* no container, changes none and schedules no callback, whatever callbacks
\* are registered.
C19_StrayUrc ==
    (/\ last.op \in {"+UUSORD:", "+UUSOCL:"}
     /\ last.d < 0 \/ Named(last.before, last.d) = {}) =>
        /\ last.p = NULL
        /\ last.scheduled = <<>>
        /\ SameButFor(last, NULL)

\* A URC naming the handle of a container that is CLOSED and has a callback,
\* while an open socket has callbacks too.
C19_Witness ==
    /\ last.op \in {"+UUSORD:", "+UUSOCL:"}
    /\ last.d >= 0
    /\ last.scheduled = <<>>
    /\ \E c \in Linked(last.before) :
          /\ last.before.heap[c].state = CLOSED
          /\ last.before.heap[c].modemHandle = last.d
          /\ last.before.heap[c].pPendingDataCallback # NULL
          /\ last.before.heap[c].pConnectionClosedCallback # NULL
    /\ \E c \in NonClosed(last.before) :
          /\ last.before.heap[c].pPendingDataCallback # NULL
          /\ last.before.heap[c].pConnectionClosedCallback # NULL

\* The states of a socket in use.
InUse == {CREATED, CONNECTED, SHUTDOWN_FOR_READ, SHUTDOWN_FOR_WRITE,
          SHUTDOWN_FOR_READ_WRITE}

\* C20: after cellularSockCleanUp() has swept the list, it holds no container from the
\* heap in state CLOSED or CLOSING, every static container that was CLOSING
\* or CLOSED is CLOSED, and every container in state CREATED, CONNECTED or
\* one of the SHUTDOWN states is as it was: in the list, found by its
\* descriptor and by its modem handle, with its state, pendingBytes and
\* callbacks.
C20_CleanUpSweep ==
    (last.op = "cleanUp" /\ last.args.swept) =>
        /\ \A c \in Linked(Now) \cap DynamicCells :
              heap[c].state \notin {CLOSED, CLOSING}
        /\ \A c \in Linked(last.before) \cap StaticCells :
              last.before.heap[c].state \in {CLOSED, CLOSING} =>
                  heap[c].state = CLOSED
        /\ \A c \in Linked(last.before) :
              last.before.heap[c].state \in InUse =>
                  /\ c \in Linked(Now)
                  /\ heap[c].state = last.before.heap[c].state
                  /\ heap[c].descriptor = last.before.heap[c].descriptor
                  /\ heap[c].modemHandle = last.before.heap[c].modemHandle
                  /\ heap[c].pendingBytes = last.before.heap[c].pendingBytes
                  /\ heap[c].pPendingDataCallback =
                        last.before.heap[c].pPendingDataCallback
                  /\ heap[c].pConnectionClosedCallback =
                        last.before.heap[c].pConnectionClosedCallback
                  /\ pContainerFindByDescriptor(Now, heap[c].descriptor) = c
                  /\ heap[c].modemHandle >= 0 =>
                        pContainerFindByModemHandle(Now, heap[c].modemHandle) = c

\* The calls of the API that begin with init().
InitCalls == SocketCalls \cup {"create", "close"}

\* C21: a cellularSockCleanUp() that sweeps the list leaves the subsystem
\* initialised, its URC handlers registered, if and only if a socket in
\* state CREATED, CONNECTED or one of the SHUTDOWN states is left in the
\* list; one called when the subsystem is not initialised leaves it so; and
\* any call of the socket API initialises it again.
C21_TearDown ==
    /\ (last.op = "cleanUp" /\ last.args.swept /\ ~crashed) =>
           (gInitialised <=> \E c \in Linked(Now) : heap[c].state \in InUse)
    /\ (last.op = "cleanUp" /\ ~last.args.swept) => ~gInitialised
    /\ last.op \in InitCalls => gInitialised

\* A sweep that found one socket CLOSING and none in use, and tore the
\* subsystem down.
C21_Witness ==
    /\ last.op = "cleanUp"
    /\ last.args.swept
    /\ ~crashed
    /\ \E c \in Linked(last.before) : last.before.heap[c].state = CLOSING
    /\ ~gInitialised

\* The static containers are all in the list, marked static.
StaticsLinked(m) ==
    \A c \in StaticCells : c \in Linked(m) /\ m.heap[c].isStatic

\* C22: while the subsystem is initialised the static containers are in
\* the list, and no create, close, cellularSockCleanUp() or
\* cellularSockDeinit() that finds them there takes one out of it: after
\* the call they are in the list still, the subsystem torn down or not.
C22_StaticsStay ==
    /\ gInitialised => StaticsLinked(Now)
    /\ (/\ last.op \in {"create", "close", "cleanUp", "deinit"}
        /\ StaticsLinked(last.before)) => StaticsLinked(Now)

\* A sweep that took a closed heap container out of the list and left the
\* static ones in it, one of them closed.
C22_Witness ==
    /\ last.op = "cleanUp"
    /\ last.args.swept
    /\ \E c \in DynamicCells : c \in Linked(last.before) /\ c \notin Linked(Now)
    /\ \E c \in StaticCells : last.before.heap[c].state = CLOSED
    /\ StaticsLinked(Now)

\* The descriptors on which a call finds a socket.
FoundDescriptors(m) ==
    {d \in Descriptors : pContainerFindByDescriptor(m, d) # NULL}

\* C23: a create that the modem rejects fails with EIO and leaves as many
\* non-closed sockets, and the same descriptors to be found, as there were
\* before the call.
C23_RejectedCreateReleases ==
    (last.op = "create" /\ last.errno = EIO /\ ~crashed) =>
        /\ last.ret = CELLULAR_SOCK_BSD_ERROR
        /\ Cardinality(NonClosed(Now)) = Cardinality(NonClosed(last.before))
        /\ FoundDescriptors(Now) = FoundDescriptors(last.before)


\* init() has left a mutex NULL: its creation has failed in the call that
\* has just ended.
MutexMissing == gMutexContainer = NULL \/ gMutexCallbacks = NULL

\* C24: a call in which the creation of a mutex fails returns an error with
\* ENOMEM, has written nothing to the modem and has not changed the pool,
\* and leaves the subsystem uninitialised.
C24_MutexFailure ==
    (last.op \in InitCalls /\ MutexMissing) =>
        /\ last.ret = CELLULAR_SOCK_BSD_ERROR
        /\ last.errno = ENOMEM
        /\ last.cmds = <<>>
        /\ Now = last.before
        /\ ~gInitialised


\* The step a task is about to take, when it is in a call.
About(t, kinds) == pc[t].todo # << >> /\ Head(pc[t].todo)[1] \in kinds

\* C25: a task of the application writes a command token or a payload, or
\* reads a prompt or a response, only while it holds the lock of the AT
\* interface; the task with an exchange open holds that lock, so no two
\* tasks have an exchange open at once.
C25_OneExchange ==
    /\ \A t \in 1..NumThreads : About(t, {"write", "read"}) => owner["at"] = t
    /\ \A t \in 1..NumThreads : pc[t].open => owner["at"] = t
    /\ Cardinality({t \in 1..NumThreads : pc[t].open}) <= 1

\* One task is in the middle of an exchange for a socket, about to read the
\* response with the container mutex held, while the call of another task
\* waits for the AT interface.
C25_Witness ==
    \E t1, t2 \in 1..NumThreads :
        /\ t1 # t2
        /\ pc[t1].open /\ owner["gMutexContainer"] = t1
        /\ About(t1, {"read"})
        /\ About(t2, {"lock"}) /\ Head(pc[t2].todo)[2] = "at"

\* The locks a task holds.
Held(t) == {l \in DOMAIN owner : owner[l] = t}

\* C26: the URC handler takes no lock but the callback mutex, and never holds
\* the container mutex; a task of the application that takes a lock holds
\* at most the container mutex, and takes that one first; and as long as a
\* task is in a call, some task in a call can take its next step.
C26_NoDeadlock ==
    /\ owner["gMutexContainer"] # 0
    /\ About(0, {"lock"}) => Head(pc[0].todo)[2] = "gMutexCallbacks"
    /\ \A t \in 1..NumThreads :
           About(t, {"lock"}) =>
               /\ Held(t) \subseteq {"gMutexContainer"}
               /\ Head(pc[t].todo)[2] \notin Held(t)
    /\ (\E t \in 0..NumThreads : pc[t].todo # << >>) =>
           \E t \in 0..NumThreads : pc[t].todo # << >> /\ ENABLED TaskStep(t)

\* The URC handler holds the callback mutex while one call, with the
\* container mutex, waits for the callback mutex and another waits for the
\* container mutex.
C26_Witness ==
    \E t1, t2 \in 1..NumThreads :
        /\ owner["gMutexCallbacks"] = 0
        /\ owner["gMutexContainer"] = t1
        /\ About(t1, {"lock"}) /\ Head(pc[t1].todo)[2] = "gMutexCallbacks"
        /\ About(t2, {"lock"}) /\ Head(pc[t2].todo)[2] = "gMutexContainer"


\* C27: the text that cellularSockAddressToString() makes of the address
\* parsed from a valid text is parsed to the same address: its type, the
\* words of the address and the port.
C27_RoundTrip ==
    last.op = "stringToAddress" =>
        /\ last.ret = "SUCCESS"
        /\ LET again == cellularSockStringToAddress(cellularSockAddressToString(last.address))
           IN /\ again.errorCode = "SUCCESS"
              /\ again.address.type = last.address.type
              /\ again.address.words = last.address.words
              /\ again.address.port = last.address.port

\* An IPV6 address with a port number, given in a text with capital letters
\* and leading zeroes that formatting does not give back.
C27_Witness ==
    /\ last.op = "stringToAddress"
    /\ last.address.type = "V6"
    /\ last.address.port = 65535
    /\ last.address.words = << <<3512, 65535>>, <<3512, 3512>>, <<65535, 65535>>, <<65535, 3512>> >>
    /\ cellularSockAddressToString(last.address) # last.text

\* The descriptors from the cursor on, each once, going back to 0 after the
\* largest.
FromCursor(cursor) == [i \in 1..(MaxDescriptor + 1) |-> (cursor + i - 1) % (MaxDescriptor + 1)]

\* The first of them that is not the descriptor of a non-closed container in
\* the list, or -1 when there is none.
FirstUnused(m, cursor) ==
    LET used == {m.heap[c].descriptor : c \in NonClosed(m)}
        scan == FromCursor(cursor)
        free == {i \in DOMAIN scan : scan[i] \notin used}
    IN IF free = {} THEN -1
       ELSE scan[CHOOSE i \in free : \A j \in free : i <= j]

\* C28: a create that succeeds returns a descriptor from 0 to the largest
\* value, the first from the cursor on, going back to 0 after the largest,
\* that no non-closed container has, and leaves the cursor one past it; a
\* create that fails leaves the cursor where it was or one past that value;
\* and nothing but create moves the cursor.  A descriptor is therefore
\* returned again only when the cursor has gone all the way round to it.
C28_RollingCursor ==
    /\ (last.op = "create" /\ last.ret # CELLULAR_SOCK_BSD_ERROR) =>
           /\ last.ret >= 0 /\ last.ret <= MaxDescriptor
           /\ last.ret = FirstUnused(last.before, last.cursor)
           /\ gNextDescriptor = (last.ret + 1) % (MaxDescriptor + 1)
    /\ (last.op = "create" /\ last.ret = CELLULAR_SOCK_BSD_ERROR) =>
           \/ gNextDescriptor = last.cursor
           \/ gNextDescriptor = (FirstUnused(last.before, last.cursor) + 1) % (MaxDescriptor + 1)
    /\ (last.op \notin {"none", "create"} /\ "cursor" \in DOMAIN last) =>
           gNextDescriptor = last.cursor
    /\ gNextDescriptor >= 0 /\ gNextDescriptor <= MaxDescriptor

\* A create that finds the cursor at the largest value, which a socket has,
\* goes back to 0 and returns that.
C28_Witness ==
    /\ last.op = "create"
    /\ last.cursor = MaxDescriptor
    /\ last.ret = 0
    /\ \E c \in NonClosed(last.before) : last.before.heap[c].descriptor = MaxDescriptor

\* The zero-length queries among the commands of a receive call.
Queries(cmds) == {i \in 1..Len(cmds) : "count" \in DOMAIN cmds[i]}

\* A receive call that ended for want of data: with EWOULDBLOCK, or, for a
\* read, with bytes received and room left in the buffer.
ConcludedNoData(res) ==
    /\ res.op \in {"read", "receiveFrom"}
    /\ "elapsed" \in DOMAIN res
    /\ \/ res.errno = EWOULDBLOCK
       \/ res.op = "read" /\ res.ret > 0 /\ res.ret < res.args.size

\* C29 as stated: a read or receiveFrom that concludes that no data is
\* available, at entry or after it has drained the bytes it knew about, has
\* asked the modem with a zero-length read since the last bytes it read.
C29_QueriesWheneverZero ==
    ConcludedNoData(last) =>
        /\ last.cmds # << >>
        /\ "count" \in DOMAIN last.cmds[Len(last.cmds)]

\* The step that takes a receive call to its loop: the modem is asked once,
\* with a zero-length read, when no bytes are known to be pending, and a count
\* that reads is taken as the bytes pending.
QueriesAtEntry ==
    (call = NoCall /\ call' # NoCall) =>
        LET p == call'.p
            pending == heap[p].pendingBytes
            cmds == call'.cmds
        IN IF pending = 0
           THEN /\ Len(cmds) = 1
                /\ "count" \in DOMAIN cmds[1]
                /\ cmds[1].cmd = (IF call'.op = "read" THEN "AT+USORD=" ELSE "AT+USORF=")
                /\ cmds[1].handle = heap[p].modemHandle
                /\ cmds[1].args = 0
                /\ heap'[p].pendingBytes = (IF cmds[1].count >= 0 THEN cmds[1].count ELSE 0)
           ELSE /\ cmds = << >>
                /\ heap'[p].pendingBytes = pending

\* An iteration of the loop of a receive call: it asks for no count, and
\* with no bytes pending it writes no command at all.
NoQueryInLoop ==
    (call # NoCall /\ call' # call) =>
        LET cmds == IF call' = NoCall THEN last'.cmds ELSE call'.cmds
        IN /\ Queries(cmds) = Queries(call.cmds)
           /\ heap[call.p].pendingBytes = 0 => cmds = call.cmds

\* C29, amended: a read or receiveFrom that finds no bytes pending at entry
\* asks the modem with a zero-length read, once and before its loop, and takes
\* the count reported when it reads; an iteration of the loop that finds no
\* bytes pending waits or ends the call without asking the modem.
C29_QueriesAtEntry == [][QueriesAtEntry /\ NoQueryInLoop]_vars

\* A read of two bytes that found none pending, was told of one by the modem,
\* read it and ended with room left, without a second query.
C29_Witness ==
    /\ last.op = "read"
    /\ "elapsed" \in DOMAIN last
    /\ last.before.heap[last.p].pendingBytes = 0
    /\ last.args.size = 2
    /\ Len(last.cmds) = 2
    /\ Queries(last.cmds) = {1}
    /\ last.cmds[1].count = 1
    /\ last.cmds[2].answer = 1
    /\ last.ret = 1
    /\ heap[last.p].pendingBytes = 0

\* C30: in every iteration of a TCP send that got its prompt, the bytes
\* written after the prompt are as many as the command announced, the number
\* announced is the smaller of the bytes still to send and
\* CELLULAR_SOCK_MAX_SEGMENT_LENGTH_BYTES, and the bytes written start at the
\* first byte the modem has not yet accepted.
C30_PayloadAsAnnounced ==
    ReachedSend(last) =>
        \A i \in 1..Len(last.cmds) :
            LET accepted == Accepted(SubSeq(last.cmds, 1, i - 1))
                command == last.cmds[i]
            IN /\ command.args.size = Min({last.args.size - accepted,
                                           CELLULAR_SOCK_MAX_SEGMENT_LENGTH_BYTES})
               /\ command.answer # NoPrompt =>
                      /\ command.args.bytes = command.args.size
                      /\ command.args.from = accepted

\* C31: shutting down one direction leaves the other open.  A write of data
\* on a TCP socket that was connected (its remote address is set) and is shut
\* down for reading is written to the modem, and a read on one that is shut
\* down for writing, with bytes pending, reads from the modem.
C31_OtherDirectionOpen ==
    /\ (/\ last.op = "write"
        /\ last.p # NULL
        /\ Before(last).protocol = TCP
        /\ Before(last).remoteAddress # ZeroAddress
        /\ Before(last).state = SHUTDOWN_FOR_READ
        /\ last.args.data # "NULL"
        /\ last.args.size > 0) =>
            /\ last.cmds # << >>
            /\ last.cmds[1].cmd = "AT+USOWR="
    /\ (/\ last.op = "read"
        /\ last.p # NULL
        /\ Before(last).protocol = TCP
        /\ Before(last).remoteAddress # ZeroAddress
        /\ Before(last).state = SHUTDOWN_FOR_WRITE
        /\ Before(last).pendingBytes > 0
        /\ last.args.data # "NULL"
        /\ last.args.size > 0) =>
            /\ last.cmds # << >>
            /\ last.cmds[1].cmd = "AT+USORD="

\* The directions of a socket in the given state that are shut down: those in
\* which a read or a write is rejected with ESHUTDOWN.
ShutDirections(state) ==
    {shut \in {SHUTDOWN_FOR_READ, SHUTDOWN_FOR_WRITE} :
        state # CONNECTED /\ NotConnected(state, shut) = ESHUTDOWN}

\* C32: a direction that has been shut down stays shut down: a shutdown that
\* succeeds on a socket leaves shut every direction that was shut before it,
\* so that after shutdown(read) and shutdown(write), in either order, reads
\* and writes are both rejected with ESHUTDOWN.
C32_StaysShutDown ==
    (/\ last.op = "shutdown"
     /\ last.ret = CELLULAR_SOCK_SUCCESS) =>
        /\ ShutDirections(Before(last).state) \subseteq ShutDirections(heap[last.p].state)
        /\ (/\ last.args.how \in {CELLULAR_SOCK_SHUTDOWN_READ, CELLULAR_SOCK_SHUTDOWN_WRITE}
            /\ Before(last).state \in {SHUTDOWN_FOR_READ, SHUTDOWN_FOR_WRITE}
            /\ Before(last).state # heap[last.p].state) =>
                ShutDirections(heap[last.p].state) = {SHUTDOWN_FOR_READ, SHUTDOWN_FOR_WRITE}

\* C33: pendingBytes of every container of the list is at least zero in
\* every state, whatever the order of the receive calls and of the +UUSORD:
\* and +UUSORF: URCs, those whose length does not parse included.
C33_PendingNotNegative ==
    \A c \in Linked(Now) : heap[c].pendingBytes >= 0

C35_LiveMeansInitialised ==
    /\ (\E c \in Linked(Now) : heap[c].state \in InUse) => gInitialised
    /\ call.op = "create" => gInitialised
    /\ (last.op = "create" /\ ~crashed) =>
           \A c \in Linked(last.before) :
               last.before.heap[c].state \in InUse =>
                   /\ c \in Linked(Now)
                   /\ heap[c].state = last.before.heap[c].state
                   /\ heap[c].descriptor = last.before.heap[c].descriptor

\* C36: a URC handler that has found its container by the modem handle works
\* on a container that is still allocated: no sweep frees it before the
\* handler has written pendingBytes or the state and read the callback.
C36_ContainerStaysAllocated ==
    call.op \in {"+UUSORD:", "+UUSOCL:"} => call.p \in Live(allocated)

\* C37: the socket of a create that succeeds is in state CREATED with no
\* bytes pending, blocking, with the default receive timeout, no remote
\* address and neither callback, whatever the container held before; it has
\* the descriptor returned and the handle the modem gave.
C37_FreshSocket ==
    (last.op = "create" /\ last.ret >= 0) =>
        LET socket == heap[last.p]
        IN /\ socket.state = CREATED
           /\ socket.pendingBytes = 0
           /\ socket.nonBlocking = FALSE
           /\ socket.receiveTimeoutMs = CELLULAR_SOCK_RECEIVE_TIMEOUT_DEFAULT_MS
           /\ socket.remoteAddress = ZeroAddress
           /\ socket.pPendingDataCallback = NULL
           /\ socket.pConnectionClosedCallback = NULL
           /\ socket.descriptor = last.ret
           /\ socket.type = last.args.type
           /\ socket.protocol = last.args.protocol
           /\ socket.modemHandle >= 0

\* A create that took over the container of a closed socket which had bytes
\* pending, was non-blocking and connected, and had a callback registered.
C37_Witness ==
    /\ last.op = "create"
    /\ last.ret >= 0
    /\ last.before.heap[last.p].state = CLOSED
    /\ last.before.heap[last.p].pendingBytes > 0
    /\ last.before.heap[last.p].nonBlocking
    /\ last.before.heap[last.p].remoteAddress # ZeroAddress
    /\ last.before.heap[last.p].pPendingDataCallback # NULL
    /\ heap[last.p].pendingBytes = 0

\* A call that sent its command to the modem and had it rejected.
ModemRefused(res, op) ==
    /\ res.op = op
    /\ res.cmds # <<>>
    /\ res.ret = CELLULAR_SOCK_BSD_ERROR

\* C38: when the modem rejects the command of a connect or of a close, the
\* call leaves the socket, and the rest of the pool, exactly as it was: a
\* rejected connect reports EHOSTUNREACH and the socket is still Created with
\* no remote address, a rejected close reports EIO and the socket keeps its
\* state, and the descriptor still finds the same socket for a retry.
C38_RejectedLeavesSocket ==
    (last # Idle /\ ~crashed) =>
        /\ ModemRefused(last, "connect") =>
               /\ last.errno = EHOSTUNREACH
               /\ Now = last.before
               /\ pContainerFindByDescriptor(Now, last.d) = last.p
               /\ last.p # NULL
               /\ heap[last.p].state = CREATED
               /\ heap[last.p].remoteAddress = ZeroAddress
        /\ ModemRefused(last, "close") =>
               /\ last.errno = EIO
               /\ Now = last.before
               /\ pContainerFindByDescriptor(Now, last.d) = last.p
               /\ last.p # NULL
               /\ heap[last.p].state = last.before.heap[last.p].state
               /\ heap[last.p].state # CLOSED

\* The modem rejected the close of a connected socket on a handle it has open:
\* the socket is still connected to its remote address.
C38_Witness ==
    /\ last # Idle
    /\ ~crashed
    /\ ModemRefused(last, "close")
    /\ last.p # NULL
    /\ heap[last.p].state = CONNECTED
    /\ heap[last.p].remoteAddress # ZeroAddress
    /\ heap[last.p].modemHandle \in modemOpen
    /\ last.errno = EIO
====
